---- MODULE Spec2Model ----
(***************************************************************************)
(* Model of the Auctionator ingestion-and-reconciliation pipeline of       *)
(* tradefury: the history reconciler (mergeHistories), the item name       *)
(* normalisation, the ItemNameResolver cache with its lookup queue, and    *)
(* the AuctionatorDataService.parse orchestration.                         *)
(*                                                                         *)
(* The module holds nine specifications over one set of variables:        *)
(*   SpecMerge  - mergeHistories applied to drawn ledgers                  *)
(*   SpecNorm   - normalizeItemName applied to drawn strings               *)
(*   Spec       - the ItemNameResolver module, every handler               *)
(*   SpecQueue  - its lookup queue alone, over longer runs                 *)
(*   SpecDrain  - the lookup queue under fair scheduling                   *)
(*   SpecPersist - the module with its persist callback under fair         *)
(*                scheduling                                               *)
(*   SpecParse  - AuctionatorDataService.parse, one call at a time         *)
(*   SpecPrefer - mergePreferRecent applied to drawn ledgers               *)
(*   SpecImport - imports into the stored ledgers, one after another       *)
(* A specification leaves the variables of the others at their idle value. *)
(***************************************************************************)
EXTENDS Integers, Sequences, FiniteSets, TLC

VARIABLES
    \* ---- history reconciler (SpecMerge)
    existing,       \* ledger passed as `existing`: item id -> list of entries
    incoming,       \* ledger passed as `incoming`
    limit,          \* the retention limit argument
    once,           \* result of the first mergeHistories call
    result,         \* result of the latest mergeHistories call
    mpc,            \* "input" | "once" | "twice"
    \* ---- name normalisation (SpecNorm)
    text,           \* the string passed to normalizeItemName
    norm1,          \* normalizeItemName(text)
    norm2,          \* normalizeItemName(normalizeItemName(text))
    npc,            \* "input" | "once" | "twice"
    \* ---- ItemNameResolver module state (Spec)
    nameToId,         \* cacheState.nameToId: normalized name -> id
    idToName,         \* cacheState.idToName: id -> display name
    cachedIndex,      \* ItemNameIndex cachedIndex: [loaded, map]
    cachedOverrides,  \* ItemNameIndex cachedOverrides: [loaded, map]
    persistScheduled, \* the persistScheduled flag
    persistCallbacks, \* persist idle callbacks armed and not yet run
    cacheLoad,        \* "pending" while cacheLoadPromise is unsettled, then "done"
    stored,           \* what PersistentStorage.getItemNameCache() answers
    pendingIds,       \* the pending Set, in insertion order
    activeRequests,   \* the activeRequests counter
    queueScheduled,   \* a queue idle callback is armed
    inFlight,         \* id -> number of queue-started resolveId calls awaiting their fetch
    calls,            \* resolve / resolveId calls of callers awaiting their fetch
    listeners,        \* registered listeners, in registration order
    notified,         \* listener calls made by the latest operation
    lastCall,         \* the latest call when it was setManualMapping (with its result),
                      \* prime (with its mapping), clearCache or the persist callback
                      \* (with the payload it handed to saveItemNameCache), else NoCall
    ops,              \* handler runs so far in this behaviour
    horizon,          \* handler runs explored in one behaviour
    \* ---- AuctionatorDataService.parse (SpecParse)
    content,          \* the document passed to parse: a list of lines
    sourceLabel,      \* the sourceLabel argument
    ppc,              \* "idle" | "awaitIndex" | "done" | "failed"
    failedAt,         \* the step whose error rejected the call: "extract" | "index" | "date"
    parsed,           \* the AuctionatorParsedData the call resolved with
    \* ---- stored ledgers and their merges (SpecPrefer, SpecImport)
    localStore,       \* what AuctionatorDataService.load() answers: null ({}) or a ledger
    sharedStore,      \* what AuctionatorDataService.loadShared() answers
    first,            \* first argument of the latest mergePreferRecent call
    second,           \* its second argument
    merged,           \* its result
    lpc               \* "idle" | "input" | "merged"

mergeVars == <<existing, incoming, limit, once, result, mpc>>
normVars  == <<text, norm1, norm2, npc>>
cacheVars == <<nameToId, idToName, cachedIndex, cachedOverrides, persistScheduled,
               persistCallbacks>>
queueVars == <<pendingIds, activeRequests, queueScheduled, inFlight>>
resolverVars == <<cacheVars, queueVars, cacheLoad, stored, calls, listeners, notified, lastCall,
                  ops, horizon>>
parseVars == <<content, sourceLabel, ppc, failedAt, parsed>>
ledgerVars == <<localStore, sharedStore, first, second, merged, lpc>>
vars      == <<mergeVars, normVars, resolverVars, parseVars, ledgerVars>>

notMergeVars    == <<normVars, resolverVars, parseVars, ledgerVars>>
notNormVars     == <<mergeVars, resolverVars, parseVars, ledgerVars>>
notResolverVars == <<mergeVars, normVars, parseVars, ledgerVars>>

-----------------------------------------------------------------------------
(* Generic helpers                                                         *)

Max(a, b) == IF a >= b THEN a ELSE b
Min(a, b) == IF a <= b THEN a ELSE b

Range(s) == {s[i] : i \in DOMAIN s}

\* Array.prototype.slice(start) for a possibly negative start.
SliceFrom(s, start) ==
    LET n    == Len(s)
        from == IF start < 0 THEN Max(n + start, 0) ELSE Min(start, n)
    IN  SubSeq(s, from + 1, n)

EmptyMap == <<>>

\* Body applied to the value of an expression, which is computed once (a
\* local const of the source).
With(value, Body(_)) == CHOOSE r \in {Body(x) : x \in {value}} : TRUE

-----------------------------------------------------------------------------
(* The value of each group of variables while another specification runs   *)

MergeIdle ==
    /\ existing = EmptyMap
    /\ incoming = EmptyMap
    /\ limit = 0
    /\ once = EmptyMap
    /\ result = EmptyMap
    /\ mpc = "idle"

NormIdle ==
    /\ text = <<>>
    /\ norm1 = <<>>
    /\ norm2 = <<>>
    /\ npc = "idle"

NotLoaded == [loaded |-> FALSE, map |-> EmptyMap]

NoCall ==
    [op |-> "none", itemId |-> [fin |-> TRUE, h |-> 0], displayName |-> <<>>,
     success |-> FALSE, previousName |-> {}, previousOwnerId |-> {}, previousOwnerName |-> {},
     payload |-> {}, mapping |-> <<>>]

ResolverIdle ==
    /\ nameToId = EmptyMap
    /\ idToName = EmptyMap
    /\ cachedIndex = NotLoaded
    /\ cachedOverrides = NotLoaded
    /\ persistScheduled = FALSE
    /\ persistCallbacks = 0
    /\ cacheLoad = "idle"
    /\ stored = [nameToId |-> EmptyMap, idToName |-> EmptyMap]
    /\ pendingIds = <<>>
    /\ activeRequests = 0
    /\ queueScheduled = FALSE
    /\ inFlight = EmptyMap
    /\ calls = {}
    /\ listeners = <<>>
    /\ notified = <<>>
    /\ lastCall = NoCall
    /\ ops = 0
    /\ horizon = 0

NoImport == [itemPrices |-> <<>>, importedAt |-> 0, source |-> ""]

ParseIdle ==
    /\ content = <<>>
    /\ sourceLabel = ""
    /\ ppc = "idle"
    /\ failedAt = ""
    /\ parsed = NoImport

LedgerIdle ==
    /\ localStore = {}
    /\ sharedStore = {}
    /\ first = {}
    /\ second = {}
    /\ merged = {}
    /\ lpc = "idle"

-----------------------------------------------------------------------------
(* History reconciler: src/unnamed/part_006                                *)

MaxEntries == 2     \* most entries (over all items) in one drawn ledger
MaxLimit   == 2     \* largest retention limit drawn as an input

ItemIds  == {1, 2}
Prices   == {1, 2}
\* importedAt values: epoch seconds denoting the ISO string toISOString()
\* produces for that instant (the strings are canonical, so two entries have
\* equal strings exactly when they denote the same instant).
Times    == {1, 2}

\* createHistoryEntry
createHistoryEntry(price, importedAt, source) ==
    [price |-> price, importedAt |-> importedAt, source |-> source]

\* new Date(importedAt).getTime(): milliseconds since the epoch
getTime(importedAt) == importedAt * 1000

\* Array.prototype.sort with the comparator
\*   (a, b) => new Date(a.importedAt).getTime() - new Date(b.importedAt).getTime()
\* The sort is stable: entries that compare equal keep their relative order.
RECURSIVE InsertByTime(_, _)
InsertByTime(sorted, e) ==
    IF sorted = <<>> THEN <<e>>
    ELSE LET n    == Len(sorted)
             last == sorted[n]
         IN  IF getTime(last.importedAt) - getTime(e.importedAt) <= 0
             THEN Append(sorted, e)
             ELSE Append(InsertByTime(SubSeq(sorted, 1, n - 1), e), last)

\* Mutant: the merged list is left in insertion order.
SortByTime_Unsorted(s) == s

RECURSIVE SortByTime(_)
SortByTime(s) ==
    IF s = <<>> THEN <<>>
    ELSE InsertByTime(SortByTime(SubSeq(s, 1, Len(s) - 1)), s[Len(s)])

\* updates.find(e => e.importedAt === entry.importedAt && e.price === entry.price)
HasDuplicate(updates, entry) ==
    \E i \in DOMAIN updates :
        /\ updates[i].importedAt = entry.importedAt
        /\ updates[i].price = entry.price

\* Mutant: every incoming entry is pushed, duplicate or not.
PushNew_KeepsDuplicates(updates, entries) == updates \o entries

\* entries.forEach(entry => { if (!duplicate) updates.push(entry) })
RECURSIVE PushNew(_, _)
PushNew(updates, entries) ==
    IF entries = <<>> THEN updates
    ELSE LET entry == Head(entries)
         IN  PushNew(IF HasDuplicate(updates, entry) THEN updates
                     ELSE Append(updates, entry),
                     Tail(entries))

\* A slice that keeps the first `lim` entries instead of the last.
SliceLast_KeepsOldest(updates, lim) == SubSeq(updates, 1, Min(lim, Len(updates)))

\* updates.slice(-limit)
SliceLast(updates, lim) == SliceFrom(updates, 0 - lim)

\* The body of incoming.forEach for one item with a non-empty list.
MergeItem(old, entries, lim) == SliceLast(SortByTime(PushNew(old, entries)), lim)

mergeHistories(ex, inc, lim) ==
    LET touched == {i \in DOMAIN inc : Len(inc[i]) # 0}
    IN  [i \in (DOMAIN ex) \cup touched |->
            IF i \in touched
            THEN MergeItem(IF i \in DOMAIN ex THEN ex[i] ELSE <<>>, inc[i], lim)
            ELSE ex[i]]

\* Arrays are objects: `at` names the array a later push or sort writes to.
\* Mutant: result.set(itemId, entries), the array of the input itself.
Spread_Shared(entries, at) == [at |-> at, items |-> entries]

\* [...entries]: a new array holding the same entries
Spread(entries, at) == [at |-> "result", items |-> entries]

\* The ledger passed as `existing` as mergeHistories leaves it: updates.push
\* and updates.sort write to the array result.get(itemId) returned, which
\* is the copy made by result.set(itemId, [...entries]). Nothing writes to
\* an array of `incoming`, and the entries themselves are never written.
existingAfter(ex, inc, lim) ==
    LET touched == {i \in DOMAIN inc : Len(inc[i]) # 0}
    IN  [i \in DOMAIN ex |->
            LET updates == Spread(ex[i], "existing")
            IN  IF i \in touched /\ updates.at = "existing"
                THEN SortByTime(PushNew(updates.items, inc[i]))
                ELSE ex[i]]

-----------------------------------------------------------------------------
(* Inputs of the reconciler                                                *)

EntriesFrom(source) ==
    {createHistoryEntry(p, t, source) : p \in Prices, t \in Times}

ListsOver(S, n) == UNION {[1..k -> S] : k \in 0..n}

IsSorted(s) ==
    \A i, j \in DOMAIN s : i < j => getTime(s[i].importedAt) <= getTime(s[j].importedAt)

NoDuplicates(s) ==
    \A i, j \in DOMAIN s :
        i # j => ~(s[i].importedAt = s[j].importedAt /\ s[i].price = s[j].price)

\* A stored ledger: parse, fromHistoryObject and mergeHistories all leave
\* every list in chronological order, and entries are deduplicated when added.
StoredLists == {s \in ListsOver(EntriesFrom("stored"), MaxEntries) : IsSorted(s) /\ NoDuplicates(s)}
ImportLists == ListsOver(EntriesFrom("import"), MaxEntries)

RECURSIVE SumLen(_, _)
SumLen(m, D) ==
    IF D = {} THEN 0
    ELSE LET i == CHOOSE x \in D : TRUE IN Len(m[i]) + SumLen(m, D \ {i})

EntryCount(m) == SumLen(m, DOMAIN m)

MapsOver(S) == {m \in UNION {[D -> S] : D \in SUBSET ItemIds} : EntryCount(m) <= MaxEntries}

MergeInit ==
    /\ NormIdle
    /\ ResolverIdle
    /\ ParseIdle
    /\ LedgerIdle
    /\ existing \in MapsOver(StoredLists)
    /\ incoming \in MapsOver(ImportLists)
    /\ limit \in 0..MaxLimit
    /\ once = EmptyMap
    /\ result = EmptyMap
    /\ mpc = "input"

\* result = mergeHistories(existing, incoming, limit)
MergeOnce ==
    /\ mpc = "input"
    /\ once' = mergeHistories(existing, incoming, limit)
    /\ result' = once'
    /\ existing' = existingAfter(existing, incoming, limit)
    /\ mpc' = "once"
    /\ UNCHANGED <<incoming, limit>>
    /\ UNCHANGED notMergeVars

\* result = mergeHistories(result, incoming, limit): the same import again
MergeAgain ==
    /\ mpc = "once"
    /\ result' = mergeHistories(result, incoming, limit)
    /\ mpc' = "twice"
    /\ UNCHANGED <<existing, incoming, limit, once>>
    /\ UNCHANGED notMergeVars

MergeNext == MergeOnce \/ MergeAgain

SpecMerge == MergeInit /\ [][MergeNext]_vars

-----------------------------------------------------------------------------
(* Item name normalisation: src/src/services/SharedStorageClient.ts        *)
(* Strings are sequences of one-character strings.                         *)

HexLen == 8         \* the {8} of /\|c[0-9a-fA-F]{8}/

HexDigits  == {"0", "1", "2", "3", "4", "5", "6", "7", "8", "9",
               "a", "b", "c", "d", "e", "f", "A", "B", "C", "D", "E", "F"}
WhiteSpace == {" ", "\t", "\n"}

IsHexRun(s, from, n) ==
    /\ from + n - 1 <= Len(s)
    /\ \A k \in from..(from + n - 1) : s[k] \in HexDigits

\* .replace(/\|c[0-9a-fA-F]{8}/g, ''): one left-to-right pass, matches do not
\* overlap and the text produced by a removal is not scanned again.
RECURSIVE StripColorStart(_)
StripColorStart(s) ==
    IF s = <<>> THEN <<>>
    ELSE IF /\ Len(s) >= 2 + HexLen
            /\ s[1] = "|"
            /\ s[2] = "c"
            /\ IsHexRun(s, 3, HexLen)
         THEN StripColorStart(SubSeq(s, 3 + HexLen, Len(s)))
         ELSE <<s[1]>> \o StripColorStart(Tail(s))

\* .replace(/\|r/g, '')
RECURSIVE StripColorEnd(_)
StripColorEnd(s) ==
    IF s = <<>> THEN <<>>
    ELSE IF Len(s) >= 2 /\ s[1] = "|" /\ s[2] = "r"
         THEN StripColorEnd(SubSeq(s, 3, Len(s)))
         ELSE <<s[1]>> \o StripColorEnd(Tail(s))

\* .replace(/\s+/g, ' ')
RECURSIVE CollapseSpaces(_)
CollapseSpaces(s) ==
    IF s = <<>> THEN <<>>
    ELSE IF s[1] \in WhiteSpace
         THEN IF Len(s) >= 2 /\ s[2] \in WhiteSpace
              THEN CollapseSpaces(Tail(s))
              ELSE <<" ">> \o CollapseSpaces(Tail(s))
         ELSE <<s[1]>> \o CollapseSpaces(Tail(s))

\* String.prototype.trim
RECURSIVE Trim(_)
Trim(s) ==
    IF s = <<>> THEN <<>>
    ELSE IF s[1] \in WhiteSpace THEN Trim(Tail(s))
    ELSE IF s[Len(s)] \in WhiteSpace THEN Trim(SubSeq(s, 1, Len(s) - 1))
    ELSE s

LowerOf(ch) ==
    CASE ch = "A" -> "a" [] ch = "B" -> "b" [] ch = "C" -> "c"
      [] ch = "D" -> "d" [] ch = "E" -> "e" [] ch = "F" -> "f"
      [] ch = "R" -> "r" [] ch = "X" -> "x" [] ch = "Y" -> "y"
      [] OTHER -> ch

\* String.prototype.toLowerCase
ToLowerCase(s) == [i \in DOMAIN s |-> LowerOf(s[i])]

normalizeItemName(name) ==
    ToLowerCase(Trim(CollapseSpaces(StripColorEnd(StripColorStart(name)))))

-----------------------------------------------------------------------------
(* ItemNameResolver: src/unnamed/part_007, with registerNameMapping of     *)
(* src/src/services/SharedStorageClient.ts.                                *)
(*                                                                         *)
(* Numbers: a JavaScript number n is represented by the integer 2n, so     *)
(* that the fractional 1.5 is the integer 3; item ids 1 and 2 are 2 and 4. *)
(* A Map is a function on its key set; map.get(k) ?? null is the set Opt,  *)
(* empty for null.                                                         *)

MAX_CONCURRENT_XML_REQUESTS == 3

Num(n) == 2 * n
IsInteger(h) == h % 2 = 0

Put(m, k, v) == [x \in (DOMAIN m) \cup {k} |-> IF x = k THEN v ELSE m[x]]
Remove(m, k) == [x \in (DOMAIN m) \ {k} |-> m[x]]
Opt(m, k)    == IF k \in DOMAIN m THEN {m[k]} ELSE {}

\* The mutable module state the synchronous helpers work on, as one record;
\* `notified` collects the listener calls made, `updated` the last isNewMapping.
World ==
    [nameToId         |-> nameToId,
     idToName         |-> idToName,
     cachedIndex      |-> cachedIndex,
     cachedOverrides  |-> cachedOverrides,
     persistScheduled |-> persistScheduled,
     persistCallbacks |-> persistCallbacks,
     notified         |-> <<>>,
     updated          |-> FALSE]

\* registerNameMapping (ItemNameIndex): patches the shared reference tables
\* when they are loaded.
registerNameMapping(w, name, itemId) ==
    LET normalized == normalizeItemName(name)
    IN  IF normalized = <<>> THEN w
        ELSE [w EXCEPT
                !.cachedOverrides =
                    IF @.loaded /\ itemId \notin DOMAIN @.map
                    THEN [@ EXCEPT !.map = Put(@, itemId, name)] ELSE @,
                !.cachedIndex =
                    IF @.loaded /\ Opt(@.map, normalized) # {itemId}
                    THEN [@ EXCEPT !.map = Put(@, normalized, itemId)] ELSE @]

\* schedulePersist: arms the idle callback unless the flag says one is armed.
schedulePersist(w) ==
    IF w.persistScheduled THEN w
    ELSE [w EXCEPT !.persistScheduled = TRUE, !.persistCallbacks = @ + 1]

\* notifyListeners: every listener, in registration order; a listener that
\* throws is caught and the loop goes on.
notifyListeners(w, itemId, name) ==
    [w EXCEPT !.notified =
        @ \o [i \in DOMAIN listeners |-> [listener |-> listeners[i], id |-> itemId, name |-> name]]]

\* storeMapping that takes every mapping for a new one.
storeMapping_AlwaysNew(w, name, itemId, shouldPersist) ==
    LET normalized == normalizeItemName(name)
    IN  IF normalized = <<>> THEN [w EXCEPT !.updated = FALSE]
        ELSE
        LET w1 == [w EXCEPT !.nameToId = Put(@, normalized, itemId),
                            !.idToName = Put(@, itemId, name)]
            w2 == registerNameMapping(w1, name, itemId)
            w3 == IF shouldPersist THEN schedulePersist(w2) ELSE w2
            w4 == notifyListeners(w3, itemId, name)
        IN  [w4 EXCEPT !.updated = TRUE]

\* storeMapping that leaves the persisting to its callers.
storeMapping_NeverPersists(w, name, itemId, shouldPersist) ==
    LET normalized == normalizeItemName(name)
    IN  IF normalized = <<>> THEN [w EXCEPT !.updated = FALSE]
        ELSE
        LET existingId   == Opt(w.nameToId, normalized)
            existingName == Opt(w.idToName, itemId)
            isNewMapping == existingId # {itemId} \/ existingName # {name}
            w1 == [w EXCEPT !.nameToId = Put(@, normalized, itemId),
                            !.idToName = Put(@, itemId, name)]
            w2 == registerNameMapping(w1, name, itemId)
            w4 == IF isNewMapping THEN notifyListeners(w2, itemId, name) ELSE w2
        IN  [w4 EXCEPT !.updated = isNewMapping]

storeMapping(w, name, itemId, shouldPersist) ==
    LET normalized == normalizeItemName(name)
    IN  IF normalized = <<>> THEN [w EXCEPT !.updated = FALSE]
        ELSE
        LET existingId   == Opt(w.nameToId, normalized)
            existingName == Opt(w.idToName, itemId)
            isNewMapping == existingId # {itemId} \/ existingName # {name}
            w1 == [w EXCEPT !.nameToId = Put(@, normalized, itemId),
                            !.idToName = Put(@, itemId, name)]
            w2 == registerNameMapping(w1, name, itemId)
            w3 == IF isNewMapping /\ shouldPersist THEN schedulePersist(w2) ELSE w2
            w4 == IF isNewMapping THEN notifyListeners(w3, itemId, name) ELSE w3
        IN  [w4 EXCEPT !.updated = isNewMapping]

\* ManualMappingResult; previousName, previousOwnerId and previousOwnerName
\* are sets with at most one element (empty for null).
Failure ==
    [success |-> FALSE, previousName |-> {}, previousOwnerId |-> {}, previousOwnerName |-> {}]

\* overrideMapping without the removal of the previous owner's reverse entry.
overrideMapping_KeepsOwner(w, itemId, displayName) ==
    LET trimmedName == Trim(displayName)
        normalized  == normalizeItemName(trimmedName)
    IN  IF ~itemId.fin \/ itemId.h <= 0 THEN [w |-> w, ret |-> Failure]
        ELSE IF trimmedName = <<>> THEN [w |-> w, ret |-> Failure]
        ELSE IF normalized = <<>> THEN [w |-> w, ret |-> Failure]
        ELSE
        LET id                == itemId.h
            previousName      == Opt(w.idToName, id)
            existingOwner     == Opt(w.nameToId, normalized)
            previousOwnerId   == {o \in existingOwner : o # id}
            previousOwnerName == UNION {Opt(w.idToName, o) : o \in previousOwnerId}
            keep       == {k \in DOMAIN w.nameToId : ~(w.nameToId[k] = id /\ k # normalized)}
            nameToId1  == [k \in keep |-> w.nameToId[k]]
            w1 == [w EXCEPT !.nameToId = Put(nameToId1, normalized, id),
                            !.idToName = Put(@, id, trimmedName)]
            w2 == registerNameMapping(w1, trimmedName, id)
            w3 == schedulePersist(w2)
            w4 == notifyListeners(w3, id, trimmedName)
        IN  [w   |-> w4,
             ret |-> [success |-> TRUE, previousName |-> previousName,
                      previousOwnerId |-> previousOwnerId,
                      previousOwnerName |-> previousOwnerName]]

\* overrideMapping(itemId, displayName): the new module state and the result.
\* itemId is an argument number [fin, h]: fin is Number.isFinite, h the value.
overrideMapping(w, itemId, displayName) ==
    LET trimmedName == Trim(displayName)
        normalized  == normalizeItemName(trimmedName)
    IN  IF ~itemId.fin \/ itemId.h <= 0 THEN [w |-> w, ret |-> Failure]
        ELSE IF trimmedName = <<>> THEN [w |-> w, ret |-> Failure]
        ELSE IF normalized = <<>> THEN [w |-> w, ret |-> Failure]
        ELSE
        LET id                == itemId.h
            previousName      == Opt(w.idToName, id)
            existingOwner     == Opt(w.nameToId, normalized)
            previousOwnerId   == {o \in existingOwner : o # id}
            previousOwnerName == UNION {Opt(w.idToName, o) : o \in previousOwnerId}
            idToName1  == [x \in (DOMAIN w.idToName) \ previousOwnerId |-> w.idToName[x]]
            keep       == {k \in DOMAIN w.nameToId : ~(w.nameToId[k] = id /\ k # normalized)}
            nameToId1  == [k \in keep |-> w.nameToId[k]]
            w1 == [w EXCEPT !.nameToId = Put(nameToId1, normalized, id),
                            !.idToName = Put(idToName1, id, trimmedName)]
            w2 == registerNameMapping(w1, trimmedName, id)
            w3 == schedulePersist(w2)
            w4 == notifyListeners(w3, id, trimmedName)
        IN  [w   |-> w4,
             ret |-> [success |-> TRUE, previousName |-> previousName,
                      previousOwnerId |-> previousOwnerId,
                      previousOwnerName |-> previousOwnerName]]

\* String.prototype.includes on character sequences
Includes(s, sub) ==
    \E i \in 0..(Len(s) - Len(sub)) : SubSeq(s, i + 1, i + Len(sub)) = sub

\* candidates.find(pred): the first of the candidates whose indexes are in
\* hits (those satisfying pred), as a set
FindFirst(candidates, hits) ==
    IF hits = {} THEN {}
    ELSE {candidates[CHOOSE i \in hits : \A j \in hits : i <= j]}

\* pickBestSearchMatch: exact normalized match, else substring match, else
\* the first candidate; empty set for null.
pickBestSearchMatch(query, candidates) ==
    IF candidates = <<>> THEN {}
    ELSE LET normalizedQuery == normalizeItemName(query)
             Exact(c)   == normalizeItemName(c.name) = normalizedQuery
             Partial(c) == Includes(normalizeItemName(c.name), normalizedQuery)
             exact   == FindFirst(candidates,
                            {i \in DOMAIN candidates : Exact(candidates[i])})
             partial == FindFirst(candidates,
                            {i \in DOMAIN candidates : Partial(candidates[i])})
         IN  IF exact # {} THEN exact
             ELSE IF partial # {} THEN partial
             ELSE {candidates[1]}

\* The forEach of ItemNameResolver.prime, and prime itself; a mapping is the
\* list of its (name, id) entries in insertion order.
RECURSIVE PrimeEach(_, _, _)
PrimeEach(w, mapping, changed) ==
    IF mapping = <<>> THEN [w EXCEPT !.updated = changed]
    ELSE With(storeMapping(w, Head(mapping).name, Head(mapping).id, FALSE),
              LAMBDA w1 : PrimeEach(w1, Tail(mapping), changed \/ w1.updated))

prime(w, mapping) ==
    IF Len(mapping) = 0 THEN w
    ELSE With(PrimeEach(w, mapping, FALSE),
              LAMBDA w1 : IF w1.updated THEN schedulePersist(w1) ELSE w1)

\* pendingIds.add(id): a Set keeps insertion order and holds no duplicates
SetAdd(pending, id) == IF id \in Range(pending) THEN pending ELSE Append(pending, id)

-----------------------------------------------------------------------------
(* Inputs of the normalisation                                             *)

MaxTokens == 3      \* a drawn string is a concatenation of at most this many tokens

\* Single characters, and one block of HexLen hex digits so that a complete
\* colour code fits into a short token list.
Tokens == { <<"|">>, <<"c">>, <<"C">>, <<"r">>, <<"R">>, <<"x">>, <<"X">>, <<" ">>, <<"\t">>,
            <<"f", "F", "0", "0", "a", "A", "1", "1">> }

RECURSIVE Concat(_)
Concat(ts) == IF ts = <<>> THEN <<>> ELSE Head(ts) \o Concat(Tail(ts))

Texts == {Concat(ts) : ts \in ListsOver(Tokens, MaxTokens)}

NormInit ==
    /\ MergeIdle
    /\ ResolverIdle
    /\ ParseIdle
    /\ LedgerIdle
    /\ text \in Texts
    /\ norm1 = <<>>
    /\ norm2 = <<>>
    /\ npc = "input"

\* norm1 = normalizeItemName(text)
Normalize ==
    /\ npc = "input"
    /\ norm1' = normalizeItemName(text)
    /\ npc' = "once"
    /\ UNCHANGED <<text, norm2>>
    /\ UNCHANGED notNormVars

\* norm2 = normalizeItemName(norm1)
NormalizeAgain ==
    /\ npc = "once"
    /\ norm2' = normalizeItemName(norm1)
    /\ npc' = "twice"
    /\ UNCHANGED <<text, norm1>>
    /\ UNCHANGED notNormVars

NormNext == Normalize \/ NormalizeAgain

SpecNorm == NormInit /\ [][NormNext]_vars

\* C10: normalizeItemName is idempotent: normalizing an already normalized
\* string changes nothing.
C10_NormalizeIdempotent ==
    npc = "twice" => norm2 = norm1

-----------------------------------------------------------------------------
(* The ItemNameResolver state machine                                      *)

MaxInFlight == 4    \* most queue-started lookups awaiting their fetch at once
MaxOps      == 4    \* handler runs explored from module load
MaxQueueOps == 10   \* handler runs explored from module load, the queue alone

Ids       == {Num(1), Num(2)}
RawNames  == { <<"A">>, <<"a">>, <<"b">> }
Listeners == {"L1"}

\* Arguments tried for setManualMapping: 1, 2, the fraction 1.5, zero, a
\* negative number and a non-finite number; names with surrounding blanks,
\* blank names and a name that is only a colour reset.
ManualNumbers ==
    {[fin |-> TRUE, h |-> h] : h \in {Num(1), 3, 0, Num(-1)}} \cup {[fin |-> FALSE, h |-> 0]}
ManualNames   == { <<"A">>, <<" ", "a">>, <<"b">>, <<" ">>, <<"|", "r">> }
\* Every number with a good name, and a good number with every name.
ManualCalls   ==
    {c \in ManualNumbers \X ManualNames :
        c[2] = <<"A">> \/ (c[1].fin /\ c[1].h = Num(1))}

\* Answers of the name-cache storage at start-up.
StoredPayloads ==
    { [nameToId |-> (<<"a">> :> Num(1)), idToName |-> (Num(1) :> <<"A">>)],
      [nameToId |-> (<<"b">> :> Num(2)), idToName |-> (Num(2) :> <<"b">>)] }

\* Reference tables as loadItemNameIndex / loadItemIdToNameMap leave them.
ReferenceTables ==
    { <<NotLoaded, NotLoaded>>,
      <<[loaded |-> TRUE, map |-> (<<"a">> :> Num(1))], [loaded |-> TRUE, map |-> EmptyMap]>> }

\* Answers of the search service to resolve(name).
SearchResults ==
    { <<>>,
      <<[id |-> Num(1), name |-> <<"A">>]>>,
      <<[id |-> Num(2), name |-> <<"b">>]>> }

\* Mappings handed to prime(), in insertion order: one name, a name another
\* id may already own, two spellings of one name for one id, two items.
PrimeMappings ==
    { <<[name |-> <<"A">>, id |-> Num(1)]>>,
      <<[name |-> <<"a">>, id |-> Num(2)]>>,
      <<[name |-> <<"A">>, id |-> Num(1)], [name |-> <<"a">>, id |-> Num(1)]>>,
      <<[name |-> <<"b">>, id |-> Num(1)], [name |-> <<"A">>, id |-> Num(2)]>> }

IdLists == {q \in ListsOver(Ids, Cardinality(Ids)) : \A i, j \in DOMAIN q : i # j => q[i] # q[j]}

Perms(S) == {q \in [1..Cardinality(S) -> S] : \A i, j \in DOMAIN q : i # j => q[i] # q[j]}

InFlightCount == LET RECURSIVE Sum(_)
                     Sum(D) == IF D = {} THEN 0
                               ELSE LET i == CHOOSE x \in D : TRUE
                                    IN  inFlight[i] + Sum(D \ {i})
                 IN  Sum(DOMAIN inFlight)

\* One more handler runs, while the explored horizon allows it.
Tick ==
    /\ ops < horizon
    /\ ops' = ops + 1
    /\ UNCHANGED horizon

\* Module load: cacheState is created empty, the hydration read is under
\* way, nothing is queued and nobody listens. The resolver only writes the
\* reference tables, so its specifications start with them in either state.
ModuleLoad(tables) ==
    /\ MergeIdle
    /\ NormIdle
    /\ ParseIdle
    /\ LedgerIdle
    /\ nameToId = EmptyMap
    /\ idToName = EmptyMap
    /\ \E rt \in tables : cachedIndex = rt[1] /\ cachedOverrides = rt[2]
    /\ persistScheduled = FALSE
    /\ persistCallbacks = 0
    /\ cacheLoad = "pending"
    /\ stored \in StoredPayloads
    /\ pendingIds = <<>>
    /\ activeRequests = 0
    /\ queueScheduled = FALSE
    /\ inFlight = [i \in Ids |-> 0]
    /\ calls = {}
    /\ listeners = <<>>
    /\ notified = <<>>
    /\ lastCall = NoCall
    /\ ops = 0

Init == ModuleLoad(ReferenceTables) /\ horizon = MaxOps

\* Writes a World back to the module state.
Commit(w) ==
    /\ nameToId' = w.nameToId
    /\ idToName' = w.idToName
    /\ cachedIndex' = w.cachedIndex
    /\ cachedOverrides' = w.cachedOverrides
    /\ persistScheduled' = w.persistScheduled
    /\ persistCallbacks' = w.persistCallbacks
    /\ notified' = w.notified

\* cache.idToName.forEach((name, id) => registerNameMapping(name, id)) in the
\* given key order.
RECURSIVE RegisterAll(_, _)
RegisterAll(w, order) ==
    IF order = <<>> THEN w
    ELSE RegisterAll(registerNameMapping(w, w.idToName[Head(order)], Head(order)), Tail(order))

\* ensureCache: the .then of the hydration read. Stored entries fill only the
\* keys the cache does not hold; no listener is told and nothing is persisted.
\* The Map iteration order of idToName is not part of the state, so every
\* order is allowed.
HydrateDone ==
    /\ Tick
    /\ cacheLoad = "pending"
    /\ LET mergedMap(cur, old) ==
               [k \in (DOMAIN cur) \cup (DOMAIN old) |-> IF k \in DOMAIN cur THEN cur[k] ELSE old[k]]
           w1 == [World EXCEPT !.nameToId = mergedMap(nameToId, stored.nameToId),
                               !.idToName = mergedMap(idToName, stored.idToName)]
       IN  \E order \in Perms(DOMAIN w1.idToName) : Commit(RegisterAll(w1, order))
    /\ cacheLoad' = "done"
    /\ lastCall' = NoCall
    /\ UNCHANGED <<queueVars, stored, calls, listeners>>
    /\ UNCHANGED notResolverVars

\* ensureCache: the .catch of the hydration read.
HydrateFail ==
    /\ Tick
    /\ cacheLoad = "pending"
    /\ cacheLoad' = "done"
    /\ notified' = <<>>
    /\ lastCall' = NoCall
    /\ UNCHANGED <<cacheVars, queueVars, stored, calls, listeners>>
    /\ UNCHANGED notResolverVars

\* ItemNameResolver.prime(mapping)
Prime(mapping) ==
    /\ Tick
    /\ Commit(prime(World, mapping))
    /\ lastCall' = [NoCall EXCEPT !.op = "prime", !.mapping = mapping]
    /\ UNCHANGED <<queueVars, cacheLoad, stored, calls, listeners>>
    /\ UNCHANGED notResolverVars

\* ItemNameResolver.setManualMapping(itemId, displayName)
SetManualMapping(itemId, displayName) ==
    LET r == overrideMapping(World, itemId, displayName)
    IN  /\ Tick
        /\ Commit(r.w)
        /\ lastCall' = [op |-> "setManualMapping", itemId |-> itemId, displayName |-> displayName,
                        success |-> r.ret.success, previousName |-> r.ret.previousName,
                        previousOwnerId |-> r.ret.previousOwnerId,
                        previousOwnerName |-> r.ret.previousOwnerName, payload |-> {},
                        mapping |-> <<>>]
        /\ UNCHANGED <<queueVars, cacheLoad, stored, calls, listeners>>
        /\ UNCHANGED notResolverVars

\* ItemNameResolver.queueIdResolution(ids); every drawn id is finite.
QueueIdResolution(ids) ==
    LET missing == SelectSeq(ids, LAMBDA id : id \notin DOMAIN idToName)
        RECURSIVE AddAll(_, _)
        AddAll(pending, q) == IF q = <<>> THEN pending ELSE AddAll(SetAdd(pending, Head(q)), Tail(q))
    IN  /\ Tick
        /\ pendingIds' = AddAll(pendingIds, missing)
        /\ queueScheduled' = (queueScheduled \/ missing # <<>>)
        /\ notified' = <<>>
        /\ lastCall' = NoCall
        /\ UNCHANGED <<cacheVars, activeRequests, inFlight, cacheLoad, stored, calls, listeners>>
        /\ UNCHANGED notResolverVars

\* The idle callback armed by scheduleQueueProcessing: run -> processQueue.
\* processQueue starts at most one resolveId. When the id is cached by now,
\* resolveId returns without a fetch and its .finally runs before any other
\* callback: the counter is back where it was and the queue is re-armed if
\* ids are left.
RunQueue ==
    /\ Tick
    /\ queueScheduled
    /\ notified' = <<>>
    /\ lastCall' = NoCall
    /\ IF activeRequests >= MAX_CONCURRENT_XML_REQUESTS \/ pendingIds = <<>>
       THEN /\ queueScheduled' = FALSE
            /\ UNCHANGED <<pendingIds, activeRequests, inFlight>>
       ELSE LET nextId == Head(pendingIds)
            IN  /\ pendingIds' = Tail(pendingIds)
                /\ IF nextId \in DOMAIN idToName
                   THEN /\ queueScheduled' = (Tail(pendingIds) # <<>>)
                        /\ UNCHANGED <<activeRequests, inFlight>>
                   ELSE /\ InFlightCount < MaxInFlight
                        /\ queueScheduled' = FALSE
                        /\ activeRequests' = activeRequests + 1
                        /\ inFlight' = [inFlight EXCEPT ![nextId] = @ + 1]
    /\ UNCHANGED <<cacheVars, cacheLoad, stored, calls, listeners>>
    /\ UNCHANGED notResolverVars

\* processQueue's .finally without the re-arming of the queue.
LookupDone_NoRearm(id, name) ==
    /\ Tick
    /\ inFlight[id] > 0
    /\ inFlight' = [inFlight EXCEPT ![id] = @ - 1]
    /\ Commit(IF name = {} THEN World
              ELSE storeMapping(World, CHOOSE n \in name : TRUE, id, TRUE))
    /\ activeRequests' = activeRequests - 1
    /\ queueScheduled' = queueScheduled
    /\ lastCall' = NoCall
    /\ UNCHANGED <<pendingIds, cacheLoad, stored, calls, listeners>>
    /\ UNCHANGED notResolverVars

\* A fetch started by the queue settles: resolveId stores the name it got
\* (name = {} for no name or a failed request), then processQueue's .finally
\* gives the slot back and re-arms the queue if ids are pending.
LookupDone(id, name) ==
    /\ Tick
    /\ inFlight[id] > 0
    /\ inFlight' = [inFlight EXCEPT ![id] = @ - 1]
    /\ Commit(IF name = {} THEN World
              ELSE storeMapping(World, CHOOSE n \in name : TRUE, id, TRUE))
    /\ activeRequests' = activeRequests - 1
    /\ queueScheduled' = (queueScheduled \/ pendingIds # <<>>)
    /\ lastCall' = NoCall
    /\ UNCHANGED <<pendingIds, cacheLoad, stored, calls, listeners>>
    /\ UNCHANGED notResolverVars

\* ItemNameResolver.resolve(name) up to its await; a call that returns at
\* once (blank name, cached name) changes nothing and is left out. One
\* caller-started fetch is outstanding at a time.
ResolveStart(name) ==
    /\ Tick
    /\ calls = {}
    /\ normalizeItemName(name) # <<>>
    /\ normalizeItemName(name) \notin DOMAIN nameToId
    /\ calls' = calls \cup {[kind |-> "resolve", name |-> name, id |-> 0]}
    /\ notified' = <<>>
    /\ lastCall' = NoCall
    /\ UNCHANGED <<cacheVars, queueVars, cacheLoad, stored, listeners>>
    /\ UNCHANGED notResolverVars

\* resolve(name) after fetchSearchResults answered with `results`.
ResolveDone(c, results) ==
    /\ Tick
    /\ c \in calls /\ c.kind = "resolve"
    /\ calls' = calls \ {c}
    /\ lastCall' = NoCall
    /\ LET bestMatch == pickBestSearchMatch(c.name, results)
       IN  IF bestMatch = {}
           THEN /\ notified' = <<>>
                /\ UNCHANGED <<cacheVars, queueVars>>
           ELSE LET best == CHOOSE b \in bestMatch : TRUE
                    w1 == storeMapping(World, best.name, best.id, TRUE)
                    w2 == storeMapping(w1, c.name, best.id, TRUE)
                IN  /\ Commit(w2)
                    /\ pendingIds' = SetAdd(pendingIds, best.id)
                    /\ queueScheduled' = TRUE
                    /\ UNCHANGED <<activeRequests, inFlight>>
    /\ UNCHANGED <<cacheLoad, stored, listeners>>
    /\ UNCHANGED notResolverVars

\* ItemNameResolver.resolveId(itemId) called directly, up to its await.
ResolveIdStart(id) ==
    /\ Tick
    /\ calls = {}
    /\ id \notin DOMAIN idToName
    /\ calls' = calls \cup {[kind |-> "resolveId", name |-> <<>>, id |-> id]}
    /\ notified' = <<>>
    /\ lastCall' = NoCall
    /\ UNCHANGED <<cacheVars, queueVars, cacheLoad, stored, listeners>>
    /\ UNCHANGED notResolverVars

\* resolveId(itemId) after fetchItemXml answered (name = {} for null).
ResolveIdDone(c, name) ==
    /\ Tick
    /\ c \in calls /\ c.kind = "resolveId"
    /\ calls' = calls \ {c}
    /\ Commit(IF name = {} THEN World
              ELSE storeMapping(World, CHOOSE n \in name : TRUE, c.id, TRUE))
    /\ lastCall' = NoCall
    /\ UNCHANGED <<queueVars, cacheLoad, stored, listeners>>
    /\ UNCHANGED notResolverVars

\* ItemNameResolver.clearCache()
ClearCache ==
    /\ Tick
    /\ nameToId' = EmptyMap
    /\ idToName' = EmptyMap
    /\ pendingIds' = <<>>
    /\ activeRequests' = 0
    /\ notified' = <<>>
    /\ lastCall' = [NoCall EXCEPT !.op = "clearCache"]
    /\ UNCHANGED <<cachedIndex, cachedOverrides, persistScheduled, persistCallbacks,
                   queueScheduled, inFlight,
                   cacheLoad, stored, calls, listeners>>
    /\ UNCHANGED notResolverVars

\* The idle callback armed by schedulePersist: it lowers the flag, builds
\* the payload from the two maps as they are now and hands it to
\* saveItemNameCache (Object.fromEntries keeps every entry: the keys of a
\* Map are distinct, and so are their strings).
PersistRun ==
    /\ Tick
    /\ persistCallbacks > 0
    /\ persistScheduled' = FALSE
    /\ persistCallbacks' = persistCallbacks - 1
    /\ notified' = <<>>
    /\ lastCall' = [NoCall EXCEPT !.op = "persist",
                                  !.payload = {[nameToId |-> nameToId, idToName |-> idToName]}]
    /\ UNCHANGED <<nameToId, idToName, cachedIndex, cachedOverrides, queueVars,
                   cacheLoad, stored, calls, listeners>>
    /\ UNCHANGED notResolverVars

\* ItemNameResolver.addListener(listener)
AddListener(l) ==
    /\ Tick
    /\ l \notin Range(listeners)
    /\ listeners' = Append(listeners, l)
    /\ notified' = <<>>
    /\ lastCall' = NoCall
    /\ UNCHANGED <<cacheVars, queueVars, cacheLoad, stored, calls>>
    /\ UNCHANGED notResolverVars

\* The unsubscribe function addListener returned
Unsubscribe(l) ==
    /\ Tick
    /\ l \in Range(listeners)
    /\ listeners' = SelectSeq(listeners, LAMBDA x : x # l)
    /\ notified' = <<>>
    /\ lastCall' = NoCall
    /\ UNCHANGED <<cacheVars, queueVars, cacheLoad, stored, calls>>
    /\ UNCHANGED notResolverVars

NoName == {}
Answers(names) == {NoName} \cup {{n} : n \in names}

\* Every handler of the module, with every drawn input.
Next ==
    \/ HydrateDone
    \/ HydrateFail
    \/ \E m \in PrimeMappings : Prime(m)
    \/ \E c \in ManualCalls : SetManualMapping(c[1], c[2])
    \/ \E q \in IdLists : QueueIdResolution(q)
    \/ RunQueue
    \/ \E id \in Ids, name \in Answers(RawNames) : LookupDone(id, name)
    \/ \E n \in RawNames : ResolveStart(n)
    \/ \E c \in calls, r \in SearchResults : ResolveDone(c, r)
    \/ \E id \in Ids : ResolveIdStart(id)
    \/ \E c \in calls, name \in Answers(RawNames) : ResolveIdDone(c, name)
    \/ ClearCache
    \/ PersistRun
    \/ \E l \in Listeners : AddListener(l)
    \/ \E l \in Listeners : Unsubscribe(l)

Spec == Init /\ [][Next]_vars

\* The module under the scheduling of its persist callback: the handlers run
\* during the first MaxPersistCalls handler runs, and an armed persist
\* callback eventually runs (requestIdleCallback / setTimeout).
MaxPersistCalls == 3   \* handler runs before the callers stop
PersistHorizon  == MaxPersistCalls + 1

Calling == ops < MaxPersistCalls

PersistNext ==
    \/ Calling /\ HydrateDone
    \/ Calling /\ HydrateFail
    \/ Calling /\ \E m \in PrimeMappings : Prime(m)
    \/ Calling /\ \E c \in ManualCalls : SetManualMapping(c[1], c[2])
    \/ Calling /\ \E q \in IdLists : QueueIdResolution(q)
    \/ Calling /\ RunQueue
    \/ Calling /\ \E id \in Ids, name \in Answers(RawNames) : LookupDone(id, name)
    \/ Calling /\ \E n \in RawNames : ResolveStart(n)
    \/ Calling /\ \E c \in calls, r \in SearchResults : ResolveDone(c, r)
    \/ Calling /\ \E id \in Ids : ResolveIdStart(id)
    \/ Calling /\ \E c \in calls, name \in Answers(RawNames) : ResolveIdDone(c, name)
    \/ Calling /\ ClearCache
    \/ Calling /\ \E l \in Listeners : AddListener(l)
    \/ Calling /\ \E l \in Listeners : Unsubscribe(l)
    \/ PersistRun

PersistInit == ModuleLoad(ReferenceTables) /\ horizon = PersistHorizon

SpecPersist == PersistInit /\ [][PersistNext]_vars /\ WF_vars(PersistRun)

\* The lookup queue: queueIdResolution, the idle-time worker, lookup
\* completions (each id has one canonical name at the service), clearCache
\* and the start-up hydration.
CanonicalName(id) == IF id = Num(1) THEN <<"A">> ELSE <<"b">>

QueueNext ==
    \/ HydrateDone
    \/ HydrateFail
    \/ \E q \in IdLists : QueueIdResolution(q)
    \/ RunQueue
    \/ \E id \in Ids : \E name \in Answers({CanonicalName(id)}) : LookupDone(id, name)
    \/ ClearCache

QueueInit == ModuleLoad({<<NotLoaded, NotLoaded>>}) /\ horizon = MaxQueueOps

SpecQueue == QueueInit /\ [][QueueNext]_vars

\* The lookup queue under its scheduling: callers queue ids (and may clear
\* the cache) during the first MaxDrainCalls handler runs and then stop; an
\* armed idle callback eventually runs and every started lookup eventually
\* settles. The horizon leaves room for everything that can still be under
\* way when the callers stop: the hydration, a run per armed callback, a
\* claim and a completion per pending id, a completion per lookup in flight.
MaxDrainCalls == 7   \* handler runs during which callers still queue ids
DrainHorizon  == MaxDrainCalls + 2 + 2 * MaxInFlight + 3 * Cardinality(Ids)

CallersActive == ops < MaxDrainCalls

LookupSettles(id) == \E name \in Answers({CanonicalName(id)}) : LookupDone(id, name)

DrainNext ==
    \/ HydrateDone
    \/ HydrateFail
    \/ CallersActive /\ \E q \in IdLists : QueueIdResolution(q)
    \/ CallersActive /\ ClearCache
    \/ RunQueue
    \/ \E id \in Ids : LookupSettles(id)

DrainInit == ModuleLoad({<<NotLoaded, NotLoaded>>}) /\ horizon = DrainHorizon

\* requestIdleCallback / setTimeout run the armed callback; a fetch settles.
DrainFairness ==
    /\ WF_vars(RunQueue)
    /\ \A id \in Ids : WF_vars(LookupSettles(id))

SpecDrain == DrainInit /\ [][DrainNext]_vars /\ DrainFairness


-----------------------------------------------------------------------------
(* AuctionatorDataService.parse: src/unnamed/part_006, with                *)
(* decodeHtmlEntities of src/unnamed/part_008 and loadItemNameIndex of     *)
(* src/src/services/SharedStorageClient.ts.                                *)
(*                                                                         *)
(* A document is a list of lines, each of one of the shapes the parsers    *)
(* tell apart; every line holds at most one brace, so the character scan   *)
(* of extractTableBlock is a scan over lines. Prices, record keys and scan *)
(* times are whole numbers (the parsers match them with \d+); item ids     *)
(* are turned into the number representation of the resolver by Num.       *)
(* A Map whose iteration order matters is a list of [key, val] pairs in    *)
(* insertion order.                                                        *)

HISTORY_LIMIT  == 50
MaxDateSeconds == 1000   \* the largest time, in seconds, a Date can hold (scaled)

PRICE_TABLE   == "AUCTIONATOR_PRICE_DATABASE"
HISTORY_TABLE == "AUCTIONATOR_PRICING_HISTORY"

Digits == <<"0", "1", "2", "3", "4", "5", "6", "7", "8", "9">>

Line(k, table, key, n, total, q) ==
    [k |-> k, table |-> table, key |-> key, n |-> n, total |-> total, q |-> q]

TableLine(name)           == Line("table", name, <<>>, 0, 0, 0)             \* NAME = {
OpenLine(key)             == Line("open", "", key, 0, 0, 0)                 \* ["key"] = {
CloseLine                 == Line("close", "", <<>>, 0, 0, 0)               \* },
ValueLine(key, n)         == Line("value", "", key, n, 0, 0)                \* ["key"] = n,
IsLine(id)                == Line("is", "", <<"i", "s">>, id, 0, 0)         \* ["is"] = "id:0:0:0:0",
RecordLine(key, total, q) == Line("record", "", <<Digits[key + 1]>>, key, total, q) \* ["key"] = "total:q",
ScanLine(n)               == Line("scan", "", <<>>, n, 0, 0)     \* AUCTIONATOR_LAST_SCAN_TIME = n

\* (rawLine.match(/{/g) || []).length and the same for }
openCount(line)  == IF line.k \in {"table", "open"} THEN 1 ELSE 0
closeCount(line) == IF line.k = "close" THEN 1 ELSE 0

\* Insertion-ordered Map: get (a set, empty for undefined), set, keys.
OGet(m, key) == {m[i].val : i \in {j \in DOMAIN m : m[j].key = key}}
OSet(m, key, val) ==
    IF \E i \in DOMAIN m : m[i].key = key
    THEN [i \in DOMAIN m |-> IF m[i].key = key THEN [key |-> key, val |-> val] ELSE m[i]]
    ELSE Append(m, [key |-> key, val |-> val])

\* extractTableBlock without its depth check at the end of the scan: a
\* truncated table gives the span up to the end of the text.
extractTableBlock_Partial(doc, tableName) ==
    LET starts == {i \in DOMAIN doc : doc[i].k = "table" /\ doc[i].table = tableName}
    IN  IF starts = {} THEN {}
        ELSE LET startIndex == CHOOSE i \in starts : \A j \in starts : i <= j
                 RECURSIVE Scan(_, _)
                 Scan(index, depth) ==
                     IF index <= Len(doc) /\ depth > 0
                     THEN Scan(index + 1, depth + openCount(doc[index]) - closeCount(doc[index]))
                     ELSE [index |-> index, depth |-> depth]
                 end == Scan(startIndex + 1, 1)
             IN  {SubSeq(doc, startIndex, end.index - 1)}

\* extractTableBlock(content, tableName): the lines from the start token to
\* the brace that closes it, or the empty set (null) when the start token is
\* missing or its brace never closes.
extractTableBlock(doc, tableName) ==
    LET starts == {i \in DOMAIN doc : doc[i].k = "table" /\ doc[i].table = tableName}
    IN  IF starts = {} THEN {}
        ELSE LET startIndex == CHOOSE i \in starts : \A j \in starts : i <= j
                 RECURSIVE Scan(_, _)
                 Scan(index, depth) ==
                     IF index <= Len(doc) /\ depth > 0
                     THEN Scan(index + 1, depth + openCount(doc[index]) - closeCount(doc[index]))
                     ELSE [index |-> index, depth |-> depth]
                 end == Scan(startIndex + 1, 1)
             IN  IF end.depth # 0 THEN {} ELSE {SubSeq(doc, startIndex, end.index - 1)}

\* extractLastScanTime: the number of the first scan line, or null
extractLastScanTime(doc) ==
    LET scans == {i \in DOMAIN doc : doc[i].k = "scan"}
    IN  IF scans = {} THEN {} ELSE {doc[CHOOSE i \in scans : \A j \in scans : i <= j].n}

\* new Date(seconds * 1000).toISOString(): the time itself, or the empty set
\* when the Date is invalid and toISOString throws a RangeError.
toISOString(seconds) ==
    IF seconds > MaxDateSeconds \/ seconds < 0 - MaxDateSeconds THEN {} ELSE {seconds}

\* decodeHtmlEntities: &name; becomes the character of a known named entity
\* and stays as it is otherwise. Numeric entities need '#', which no drawn
\* name holds.
WordChars == {"A", "a", "b", "m", "p", "l", "t", "g", "i", "s", "r", "c", "e"}
NAMED_ENTITIES ==
    { [entity |-> <<"a", "m", "p">>, char |-> "&"],
      [entity |-> <<"l", "t">>, char |-> "<"],
      [entity |-> <<"g", "t">>, char |-> ">"] }

decodeEntity(entity) == {e.char : e \in {x \in NAMED_ENTITIES : x.entity = entity}}

RECURSIVE decodeHtmlEntities(_)
decodeHtmlEntities(value) ==
    IF value = <<>> THEN <<>>
    ELSE IF Head(value) # "&" THEN <<Head(value)>> \o decodeHtmlEntities(Tail(value))
    ELSE LET rest == Tail(value)
             ends == {i \in DOMAIN rest :
                         /\ i >= 2
                         /\ rest[i] = ";"
                         /\ \A j \in 1..(i - 1) : rest[j] \in WordChars}
         IN  IF ends = {} THEN <<"&">> \o decodeHtmlEntities(rest)
             ELSE LET i       == CHOOSE x \in ends : TRUE
                      decoded == decodeEntity(SubSeq(rest, 1, i - 1))
                  IN  (IF decoded = {} THEN SubSeq(value, 1, i + 1)
                       ELSE <<CHOOSE c \in decoded : TRUE>>)
                      \o decodeHtmlEntities(SubSeq(rest, i + 1, Len(rest)))

\* extractBracketKeyValue(line): null unless the line starts with ["key"] =
extractBracketKeyValue(line) ==
    IF line.k \in {"open", "value", "is", "record"} THEN {line} ELSE {}

\* rawValue.match(/(-?\d+)/): the first whole number of the value
FirstNumber(line) == IF line.k = "record" THEN line.total ELSE line.n

\* parseNamedPriceDatabase: the body of its loop for one line, the loop, and
\* the function.
NamedLine(st, line) ==
    LET keyValue   == extractBracketKeyValue(line)
        opens      == keyValue # {} /\ line.k = "open"
        realm1     == IF opens /\ st.depth = 1 THEN {line.key} ELSE st.currentRealm
        price      == FirstNumber(line)
        decodedKey == decodeHtmlEntities(line.key)
        known      == OGet(st.prices, decodedKey)
        depth1     == st.depth + openCount(line) - closeCount(line)
    IN  [depth        |-> Max(depth1, 0),
         currentRealm |-> IF depth1 < 2 THEN {} ELSE realm1,
         prices       |-> IF /\ keyValue # {} /\ ~opens
                             /\ st.depth >= 2 /\ st.currentRealm # {}
                             /\ price > 0
                             /\ \A e \in known : price < e
                          THEN OSet(st.prices, decodedKey, price) ELSE st.prices]

RECURSIVE NamedLines(_, _)
NamedLines(lines, st) ==
    IF lines = <<>> THEN st.prices
    ELSE With(NamedLine(st, Head(lines)), LAMBDA next : NamedLines(Tail(lines), next))

parseNamedPriceDatabase(tableBlock) ==
    NamedLines(tableBlock, [depth |-> 0, currentRealm |-> {}, prices |-> <<>>])

\* PRICE_KEY_PATTERNS (the H<digits> spill-over keys are not drawn)
PRICE_KEYS ==
    { <<"p", "r", "i", "c", "e">>, <<"m", "r">> }

\* parseLegacyPriceDatabase: commitEntry, the body of its loop for one line,
\* the loop, and the function.
commitEntry(st) ==
    [currentItemId |-> {}, currentPrice |-> {},
     prices |-> IF st.currentItemId # {} /\ st.currentPrice # {}
                THEN OSet(st.prices, CHOOSE i \in st.currentItemId : TRUE,
                                     CHOOSE p \in st.currentPrice : TRUE)
                ELSE st.prices]

LegacyLine(st, line) ==
    IF line.k = "is"
    THEN [commitEntry(st) EXCEPT
             !.currentItemId = {Num(line.n)},
             !.currentPrice  = IF st.currentItemId # {} /\ st.currentPrice # {}
                               THEN {} ELSE st.currentPrice]
    ELSE IF line.k = "value" /\ line.key \in PRICE_KEYS /\ line.n > 0
    THEN [st EXCEPT !.currentPrice = {line.n}]
    ELSE IF line.k = "close" THEN commitEntry(st)
    ELSE st

RECURSIVE LegacyLines(_, _)
LegacyLines(lines, st) ==
    IF lines = <<>> THEN commitEntry(st).prices
    ELSE With(LegacyLine(st, Head(lines)), LAMBDA next : LegacyLines(Tail(lines), next))

parseLegacyPriceDatabase(tableBlock) ==
    LegacyLines(tableBlock, [currentItemId |-> {}, currentPrice |-> {}, prices |-> <<>>])

\* parsePricingHistoryData: the state of its loop, commitCurrent, the loop
\* and the result [index, entriesByItemId, maxKey].
HistoryStart ==
    [depth |-> 0, currentItemName |-> {}, currentNormalizedName |-> <<>>, currentItemId |-> {},
     pendingEntries |-> <<>>, index |-> EmptyMap, entriesByItemId |-> <<>>, maxKey |-> {}]

commitCurrent(st) ==
    LET st1 == IF st.currentNormalizedName # <<>> /\ st.currentItemId # {}
               THEN LET id == CHOOSE i \in st.currentItemId : TRUE
                        before   == IF OGet(st.entriesByItemId, id) = {} THEN <<>>
                                    ELSE CHOOSE e \in OGet(st.entriesByItemId, id) : TRUE
                    IN  [st EXCEPT
                            !.index = Put(@, st.currentNormalizedName, id),
                            !.entriesByItemId =
                                IF st.pendingEntries # <<>>
                                THEN OSet(@, id, before \o st.pendingEntries) ELSE @]
               ELSE st
    IN  [st1 EXCEPT !.currentItemName = {}, !.currentNormalizedName = <<>>,
                    !.currentItemId = {}, !.pendingEntries = <<>>]

HistoryLine(st, line) ==
    LET depth1 == st.depth + openCount(line) - closeCount(line)
    IN  IF line.k = "open" /\ st.depth = 1
        THEN LET decoded == decodeHtmlEntities(line.key)
             IN  [commitCurrent(st) EXCEPT
                     !.currentItemName = {decoded},
                     !.currentNormalizedName = normalizeItemName(decoded),
                     !.depth = Max(depth1, 0)]
        ELSE LET st1 ==
                     IF st.currentItemName = {} THEN st
                     ELSE IF line.k = "is"
                     THEN [st EXCEPT
                              !.currentItemId = {Num(line.n)},
                              !.index = IF st.currentNormalizedName # <<>>
                                        THEN Put(@, st.currentNormalizedName, Num(line.n))
                                        ELSE @]
                     ELSE IF line.k = "record" /\ line.total > 0
                     THEN [st EXCEPT
                              !.pendingEntries =
                                  Append(@, [key |-> line.n, totalPrice |-> line.total,
                                             quantity |-> IF line.q > 0 THEN line.q ELSE 1]),
                              !.maxKey = IF @ = {} \/ \A m \in @ : line.n > m
                                         THEN {line.n} ELSE @]
                     ELSE st
                 st2 == IF depth1 < 2 /\ st1.currentItemName # {}
                        THEN commitCurrent(st1) ELSE st1
             IN  [st2 EXCEPT !.depth = Max(depth1, 0)]

RECURSIVE HistoryLines(_, _)
HistoryLines(lines, st) ==
    IF lines = <<>> THEN commitCurrent(st)
    ELSE With(HistoryLine(st, Head(lines)), LAMBDA next : HistoryLines(Tail(lines), next))

parsePricingHistoryData(tableBlock) ==
    LET st == HistoryLines(tableBlock, HistoryStart)
    IN  [index |-> st.index, entriesByItemId |-> st.entriesByItemId, maxKey |-> st.maxKey]

\* [...records].sort((a, b) => a.key - b.key), a stable sort
RECURSIVE InsertByKey(_, _)
InsertByKey(sorted, r) ==
    IF sorted = <<>> THEN <<r>>
    ELSE LET n    == Len(sorted)
             last == sorted[n]
         IN  IF last.key - r.key <= 0 THEN Append(sorted, r)
             ELSE Append(InsertByKey(SubSeq(sorted, 1, n - 1), r), last)

RECURSIVE SortByKey(_)
SortByKey(s) ==
    IF s = <<>> THEN <<>> ELSE InsertByKey(SortByKey(SubSeq(s, 1, Len(s) - 1)), s[Len(s)])

\* Math.round(totalPrice / Math.max(quantity, 1)) for whole positive operands
RoundedQuotient(totalPrice, quantity) ==
    LET q == Max(quantity, 1) IN (2 * totalPrice + q) \div (2 * q)

\* convertRawHistoryToEntries; maxKeyOverride is never null when records
\* exist, since parse passes the largest key parsePricingHistoryData saw.
RecordEntry(entries, r, source, anchorSeconds, globalMaxKey) ==
    LET perItemPrice == RoundedQuotient(r.totalPrice, r.quantity)
        importedAtSeconds ==
            IF globalMaxKey = {} THEN anchorSeconds
            ELSE anchorSeconds - ((CHOOSE m \in globalMaxKey : TRUE) - r.key) * 60
        importedAt   == Max(importedAtSeconds, 0)
        entry        == createHistoryEntry(perItemPrice, importedAt, source)
    IN  IF r.totalPrice <= 0 \/ perItemPrice <= 0 \/ HasDuplicate(entries, entry)
        THEN entries ELSE Append(entries, entry)

RECURSIVE RecordEntries(_, _, _, _, _)
RecordEntries(records, entries, source, anchorSeconds, globalMaxKey) ==
    IF records = <<>> THEN entries
    ELSE With(RecordEntry(entries, Head(records), source, anchorSeconds, globalMaxKey),
              LAMBDA next : RecordEntries(Tail(records), next, source, anchorSeconds,
                                          globalMaxKey))

ConvertItem(history, item, source, anchorSeconds, globalMaxKey) ==
    With(SortByTime(RecordEntries(SortByKey(item.val), <<>>, source, anchorSeconds,
                                  globalMaxKey)),
         LAMBDA entries :
             IF Len(entries) > HISTORY_LIMIT
             THEN OSet(history, item.key, SliceLast(entries, HISTORY_LIMIT))
             ELSE IF Len(entries) > 0 THEN OSet(history, item.key, entries)
             ELSE history)

RECURSIVE ConvertEach(_, _, _, _, _)
ConvertEach(rawHistory, history, source, anchorSeconds, globalMaxKey) ==
    IF rawHistory = <<>> THEN history
    ELSE With(ConvertItem(history, Head(rawHistory), source, anchorSeconds, globalMaxKey),
              LAMBDA next : ConvertEach(Tail(rawHistory), next, source, anchorSeconds,
                                        globalMaxKey))

convertRawHistoryToEntries(rawHistory, source, anchorTimestamp, maxKeyOverride) ==
    ConvertEach(rawHistory, <<>>, source, anchorTimestamp, maxKeyOverride)

\* mapNamePricesToItemIds: the loop over namePrices and the result; the
\* itemNameIndex it is handed is the shared cachedIndex map, which it writes.
MapName(acc, entry, historyIndex) ==
    LET decodedName == decodeHtmlEntities(entry.key)
        normalized  == normalizeItemName(decodedName)
        fromIndex   == Opt(acc.itemNameIndex, normalized)
        fromHistory == IF fromIndex = {} THEN Opt(historyIndex, normalized) ELSE {}
        itemId      == fromIndex \cup fromHistory
    IN  IF itemId = {}
        THEN [acc EXCEPT !.unknownNames = SetAdd(@, decodedName)]
        ELSE LET id    == CHOOSE i \in itemId : TRUE
                 known == OGet(acc.prices, id)
             IN  [acc EXCEPT
                     !.resolvedViaHistory = IF fromHistory # {} THEN @ + 1 ELSE @,
                     !.itemNameIndex = IF fromHistory # {} THEN Put(@, normalized, id) ELSE @,
                     !.resolvedNames = OSet(@, decodedName, id),
                     !.prices = IF \A e \in known : entry.val < e
                                THEN OSet(@, id, entry.val) ELSE @]

RECURSIVE MapEach(_, _, _)
MapEach(namePrices, historyIndex, acc) ==
    IF namePrices = <<>> THEN acc
    ELSE With(MapName(acc, Head(namePrices), historyIndex),
              LAMBDA next : MapEach(Tail(namePrices), historyIndex, next))

mapNamePricesToItemIds(namePrices, itemNameIndex, historyIndex) ==
    MapEach(namePrices, historyIndex,
            [prices |-> <<>>, unknownNames |-> <<>>, resolvedViaHistory |-> 0,
             resolvedNames |-> <<>>, itemNameIndex |-> itemNameIndex])

\* itemPrices.forEach of parse: the latest price joins the item's history.
AddLatestOf(history, item, importedAt, source) ==
    LET existingEntries == IF OGet(history, item.key) = {} THEN <<>>
                           ELSE CHOOSE e \in OGet(history, item.key) : TRUE
        latestEntry     == createHistoryEntry(item.val, importedAt, source)
        entries         == IF HasDuplicate(existingEntries, latestEntry) THEN existingEntries
                           ELSE SortByTime(Append(existingEntries, latestEntry))
    IN  OSet(history, item.key, SliceLast(entries, HISTORY_LIMIT))

RECURSIVE AddLatest(_, _, _, _)
AddLatest(itemPrices, history, importedAt, source) ==
    IF itemPrices = <<>> THEN history
    ELSE With(AddLatestOf(history, Head(itemPrices), importedAt, source),
              LAMBDA next : AddLatest(Tail(itemPrices), next, importedAt, source))

\* parse before its await: the blocks and what the block parsers and
\* extractLastScanTime read from them.
ParseTables(doc) ==
    LET priceBlock   == extractTableBlock(doc, PRICE_TABLE)
        historyBlock == extractTableBlock(doc, HISTORY_TABLE)
    IN  [priceBlock   |-> priceBlock,
         namePrices   |-> IF priceBlock = {} THEN <<>>
                          ELSE parseNamedPriceDatabase(CHOOSE b \in priceBlock : TRUE),
         historyData  |-> IF historyBlock = {}
                          THEN [index |-> EmptyMap, entriesByItemId |-> <<>>, maxKey |-> {}]
                          ELSE parsePricingHistoryData(CHOOSE b \in historyBlock : TRUE),
         lastScanTime |-> extractLastScanTime(doc)]

\* Mutant: the legacy parser's output is used whenever there is a price
\* table.
ParseResult_AlwaysLegacy(w, t, resolved, label, now) ==
    LET itemPrices == IF t.priceBlock # {}
                      THEN parseLegacyPriceDatabase(CHOOSE b \in t.priceBlock : TRUE)
                      ELSE resolved.prices
        anchorTimestamp == IF t.lastScanTime = {} THEN now
                           ELSE CHOOSE s \in t.lastScanTime : TRUE
        importedAt      == toISOString(anchorTimestamp)
    IN  IF importedAt = {}
        THEN [w |-> w, threw |-> TRUE, data |-> NoImport]
        ELSE LET at == CHOOSE s \in importedAt : TRUE
                 historyFromFile ==
                     convertRawHistoryToEntries(t.historyData.entriesByItemId, label,
                                                anchorTimestamp, t.historyData.maxKey)
             IN  [w |-> w, threw |-> FALSE,
                  data |-> [itemPrices |-> AddLatest(itemPrices, historyFromFile, at, label),
                            importedAt |-> at, source |-> label]]

\* parse after prime: the legacy fallback, the anchor time and the history
\* it returns, or the RangeError of toISOString. `now` is
\* Math.floor(Date.now() / 1000).
ParseResult(w, t, resolved, label, now) ==
    LET itemPrices == IF resolved.prices = <<>> /\ t.priceBlock # {}
                      THEN parseLegacyPriceDatabase(CHOOSE b \in t.priceBlock : TRUE)
                      ELSE resolved.prices
        anchorTimestamp == IF t.lastScanTime = {} THEN now
                           ELSE CHOOSE s \in t.lastScanTime : TRUE
        importedAt      == toISOString(anchorTimestamp)
    IN  IF importedAt = {}
        THEN [w |-> w, threw |-> TRUE, data |-> NoImport]
        ELSE LET at == CHOOSE s \in importedAt : TRUE
                 historyFromFile ==
                     convertRawHistoryToEntries(t.historyData.entriesByItemId, label,
                                                anchorTimestamp, t.historyData.maxKey)
             IN  [w |-> w, threw |-> FALSE,
                  data |-> [itemPrices |-> AddLatest(itemPrices, historyFromFile, at, label),
                            importedAt |-> at, source |-> label]]

\* parse from its await on: the module state it leaves and its outcome.
parseAfterIndex(w, doc, label, now) ==
    With(ParseTables(doc), LAMBDA t :
    With(mapNamePricesToItemIds(t.namePrices, w.cachedIndex.map, t.historyData.index),
         LAMBDA resolved :
    With(prime([w EXCEPT !.cachedIndex.map = resolved.itemNameIndex],
               [i \in DOMAIN resolved.resolvedNames |->
                   [name |-> resolved.resolvedNames[i].key,
                    id   |-> resolved.resolvedNames[i].val]]),
         LAMBDA primed : ParseResult(primed, t, resolved, label, now))))

-----------------------------------------------------------------------------
(* Inputs of parse and its state machine                                   *)

MaxPriceLines == 2   \* most different item lines of a drawn price table
MaxRecords    == 2   \* most different history records of a drawn item

SourceLabels == {"Auctionator.lua"}
Nows         == {100}

\* The lists of at most n different lines of S, and each line twice.
LinesOver(S, n) ==
    {q \in ListsOver(S, n) : \A i, j \in DOMAIN q : i # j => q[i] # q[j]}
    \cup {<<x, x>> : x \in S}

\* Item lines of a price table: two spellings of one name, and a name with
\* an entity.
PriceItems ==
    { ValueLine(<<"A">>, 2), ValueLine(<<"a">>, 1),
      ValueLine(<<"b", "&", "a", "m", "p", ";">>, 2) }

\* The price table section of a document: none; a table of named prices in
\* a realm; the same with its closing brace cut off; a table in the legacy
\* layout, with item blocks that hold an id and a price; a table with a
\* named price next to an item block.
PriceSections ==
    LET named(items) == <<TableLine(PRICE_TABLE), OpenLine(<<"r">>)>> \o items
                        \o <<CloseLine, CloseLine>>
        legacy(id, price) ==
            <<TableLine(PRICE_TABLE), OpenLine(<<"r">>), OpenLine(<<"b">>), IsLine(id),
              ValueLine(<<"m", "r">>, price), CloseLine, CloseLine, CloseLine>>
    IN  {<<>>}
        \cup {named(items) : items \in LinesOver(PriceItems, MaxPriceLines)}
        \cup {SubSeq(named(<<i>>), 1, 4) : i \in {ValueLine(<<"A">>, 2)}}
        \cup {legacy(2, 3), legacy(1, 0)}
        \cup {SubSeq(legacy(2, 3), 1, 2) \o <<ValueLine(<<"A">>, 2)>>
              \o SubSeq(legacy(2, 3), 3, 8)}

HistoryRecords == { RecordLine(1, 3, 2), RecordLine(3, 1, 3) }

\* The pricing-history section: none; one item with or without its id line
\* and with some records; the same with its closing brace cut off.
HistorySections ==
    LET item(name, idLines, records) ==
            <<TableLine(HISTORY_TABLE), OpenLine(name)>> \o idLines \o records
            \o <<CloseLine, CloseLine>>
        whole == {item(name, idLines, records) :
                     name \in {<<"b">>}, idLines \in {<<>>, <<IsLine(2)>>},
                     records \in LinesOver(HistoryRecords, MaxRecords)}
    IN  {<<>>} \cup whole \cup {SubSeq(h, 1, Len(h) - 1) : h \in {item(<<"b">>, <<IsLine(2)>>, <<>>)}}

\* The scan-time line: none, a time, a time past the range of Date.
ScanSections == {<<>>, <<ScanLine(150)>>, <<ScanLine(MaxDateSeconds + 1)>>}

\* A pricing history with one record more than the retention limit keeps,
\* two of them a minute older than the rest, alone and after a price table
\* that names its item.
LongHistory ==
    <<TableLine(HISTORY_TABLE), OpenLine(<<"b">>), IsLine(2)>>
    \o [i \in 1..(HISTORY_LIMIT + 1) |-> RecordLine(IF i <= 2 THEN 8 ELSE 9, i, 1)]
    \o <<CloseLine, CloseLine>>

LongDocuments ==
    { <<ScanLine(150)>> \o LongHistory,
      <<ScanLine(150), TableLine(PRICE_TABLE), OpenLine(<<"r">>),
        ValueLine(<<"b">>, HISTORY_LIMIT + 2), CloseLine, CloseLine>> \o LongHistory }

Documents ==
    {s \o p \o h : s \in ScanSections, p \in PriceSections, h \in HistorySections}
    \cup LongDocuments

\* What createItemNameIndex builds from the item files.
IndexFiles ==
    { [index |-> EmptyMap, overrides |-> EmptyMap],
      [index |-> (<<"a">> :> Num(1)), overrides |-> EmptyMap],
      [index |-> (<<"a">> :> Num(1)) @@ (<<"b">> :> Num(1)), overrides |-> (Num(1) :> <<"A">>)] }

\* AuctionatorDataService.parse(content, sourceLabel) up to its await: both
\* extractions, the throw when neither table is found, the block parsers
\* (pure, recomputed after the await) and the call of loadItemNameIndex.
ParseCall(doc, label) ==
    /\ Tick
    /\ ppc = "idle"
    /\ content' = doc
    /\ sourceLabel' = label
    /\ IF extractTableBlock(doc, PRICE_TABLE) = {} /\ extractTableBlock(doc, HISTORY_TABLE) = {}
       THEN ppc' = "failed" /\ failedAt' = "extract"
       ELSE ppc' = "awaitIndex" /\ failedAt' = ""
    /\ parsed' = NoImport
    /\ notified' = <<>>
    /\ lastCall' = NoCall
    /\ UNCHANGED <<cacheVars, queueVars, cacheLoad, stored, calls, listeners>>
    /\ UNCHANGED <<mergeVars, normVars, ledgerVars>>

\* The rest of parse, run when the awaited index is there.
ParseResume(w, now) ==
    \E r \in {parseAfterIndex(w, content, sourceLabel, now)} :
        /\ Commit(r.w)
        /\ ppc' = IF r.threw THEN "failed" ELSE "done"
        /\ failedAt' = IF r.threw THEN "date" ELSE ""
        /\ parsed' = r.data
        /\ lastCall' = NoCall
        /\ UNCHANGED <<content, sourceLabel>>
        /\ UNCHANGED <<queueVars, cacheLoad, stored, calls, listeners>>
        /\ UNCHANGED <<mergeVars, normVars, ledgerVars>>

\* loadItemNameIndex answered with the index it had cached.
IndexCached(now) ==
    /\ Tick
    /\ ppc = "awaitIndex"
    /\ cachedIndex.loaded
    /\ ParseResume(World, now)

\* loadItemNameIndex built the index (and the overrides map before it).
IndexLoaded(file, now) ==
    /\ Tick
    /\ ppc = "awaitIndex"
    /\ ~cachedIndex.loaded
    /\ ParseResume([World EXCEPT
                       !.cachedIndex = [loaded |-> TRUE, map |-> file.index],
                       !.cachedOverrides = IF @.loaded THEN @
                                           ELSE [loaded |-> TRUE, map |-> file.overrides]],
                   now)

\* loadItemNameIndex rejected: reading the item file failed. The overrides
\* map is loaded by then (createOverrideMap never rejects); parse does not
\* catch the rejection.
IndexRejected ==
    /\ Tick
    /\ ppc = "awaitIndex"
    /\ ~cachedIndex.loaded
    /\ cachedOverrides' = IF cachedOverrides.loaded THEN cachedOverrides
                          ELSE [loaded |-> TRUE, map |-> EmptyMap]
    /\ ppc' = "failed"
    /\ failedAt' = "index"
    /\ notified' = <<>>
    /\ lastCall' = NoCall
    /\ UNCHANGED <<nameToId, idToName, cachedIndex, persistScheduled, persistCallbacks>>
    /\ UNCHANGED <<queueVars, cacheLoad, stored, calls, listeners>>
    /\ UNCHANGED <<content, sourceLabel, parsed>>
    /\ UNCHANGED <<mergeVars, normVars, ledgerVars>>

\* One parse call from module load, with the start-up hydration of the
\* resolver cache before, during or after it.
ParseNext ==
    \/ \E doc \in Documents, label \in SourceLabels : ParseCall(doc, label)
    \/ \E now \in Nows : IndexCached(now)
    \/ \E file \in IndexFiles, now \in Nows : IndexLoaded(file, now)
    \/ IndexRejected
    \/ HydrateDone

SpecParse == Init /\ [][ParseNext]_vars

-----------------------------------------------------------------------------
(* Stored ledgers: mergeWithExisting and mergePreferRecent of              *)
(* src/unnamed/part_006. A ledger is an AuctionatorParsedData whose        *)
(* itemPrices Map is a function from item id to its list of entries; a     *)
(* nullable ledger is a set with at most one element.                      *)

\* An importedAt string that Date cannot parse. Every time the program
\* writes is at or after the epoch, so a negative number stands for it.
InvalidDate == 0 - 1

\* new Date(importedAt).getTime() of a ledger's importedAt: the empty set
\* for NaN.
LedgerTime(importedAt) == IF importedAt = InvalidDate THEN {} ELSE {getTime(importedAt)}

\* ParsedImport.itemPrices, an insertion-ordered Map, as a function
HistoryOf(itemPrices) ==
    [id \in {itemPrices[i].key : i \in DOMAIN itemPrices} |->
        CHOOSE h \in OGet(itemPrices, id) : TRUE]

\* mergeWithExisting(existing, incoming) for a nullable existing ledger
mergeWithExisting(ex, inc) ==
    IF ex = {} THEN inc
    ELSE LET known == CHOOSE l \in ex : TRUE
         IN  [itemPrices |-> mergeHistories(known.itemPrices, inc.itemPrices, HISTORY_LIMIT),
              importedAt |-> inc.importedAt,
              source     |-> inc.source]

\* mergePreferRecent(first, second) for nullable ledgers
mergePreferRecent(a, b) ==
    IF a = {} /\ b = {} THEN {}
    ELSE IF a = {} THEN b
    ELSE IF b = {} THEN a
    ELSE LET firstLedger  == CHOOSE l \in a : TRUE
             secondLedger == CHOOSE l \in b : TRUE
             firstTime    == LedgerTime(firstLedger.importedAt)
             secondTime   == LedgerTime(secondLedger.importedAt)
             firstValid   == firstTime # {}
             secondValid  == secondTime # {}
         IN  IF ~firstValid /\ ~secondValid THEN {mergeWithExisting(a, secondLedger)}
             ELSE IF ~firstValid THEN {mergeWithExisting(a, secondLedger)}
             ELSE IF ~secondValid THEN {mergeWithExisting(b, firstLedger)}
             ELSE IF \A t2 \in secondTime : \A t1 \in firstTime : t2 >= t1
             THEN {mergeWithExisting(a, secondLedger)}
             ELSE {mergeWithExisting(b, firstLedger)}

-----------------------------------------------------------------------------
(* Inputs of mergePreferRecent and its state machine                       *)

MaxLedgerEntries == 1   \* most entries (over all items) in one drawn ledger

\* The importedAt of a drawn ledger: a time, or a string Date cannot parse
LedgerDates == Times \cup {InvalidDate}

\* Ledgers as load() and loadShared() hand them over: histories in
\* chronological order without duplicates, under the metadata of the
\* import that wrote them.
LedgersFrom(source) ==
    {[itemPrices |-> h, importedAt |-> at, source |-> source] :
        h \in {m \in MapsOver(StoredLists) : EntryCount(m) <= MaxLedgerEntries},
        at \in LedgerDates}

PreferInit ==
    /\ MergeIdle
    /\ NormIdle
    /\ ResolverIdle
    /\ ParseIdle
    /\ localStore = {}
    /\ sharedStore = {}
    /\ first \in {{}} \cup {{l} : l \in LedgersFrom("local")}
    /\ second \in {{}} \cup {{l} : l \in LedgersFrom("shared")}
    /\ merged = {}
    /\ lpc = "input"

\* merged = mergePreferRecent(first, second)
PreferRecent ==
    /\ lpc = "input"
    /\ merged' = mergePreferRecent(first, second)
    /\ lpc' = "merged"
    /\ UNCHANGED <<localStore, sharedStore, first, second>>
    /\ UNCHANGED <<mergeVars, normVars, resolverVars, parseVars>>

PreferNext == PreferRecent

SpecPrefer == PreferInit /\ [][PreferNext]_vars

-----------------------------------------------------------------------------
(* Imports into the stored ledgers: handleFileSelection and loadData of    *)
(* useAuctionatorData (src/unnamed/part_001) over save and load of         *)
(* src/unnamed/part_006. Two ledgers are maintained apart from each other, *)
(* the local copy and the shared copy; each grows by imports and loadData  *)
(* unifies the two into the local one.                                     *)

MaxImportOps == 10   \* handler runs explored in one behaviour of SpecImport

\* fromHistoryObject over toHistoryObject: every list sorted by time and cut
\* to the last HISTORY_LIMIT entries (the entries a ledger of the program
\* holds all pass its filter).
fromHistoryObject(obj) ==
    [id \in DOMAIN obj |-> SliceLast(SortByTime(obj[id]), HISTORY_LIMIT)]

\* load() after save(data): parseStoragePayload(createStoragePayload(data))
Saved(data) ==
    {[itemPrices |-> fromHistoryObject(l.itemPrices),
      importedAt |-> l.importedAt,
      source     |-> l.source] : l \in data}

\* The documents imported: an item's history with its id, with or without a
\* scan-time line and a price table that names the item.
ImportDocuments ==
    LET history(records) ==
            <<TableLine(HISTORY_TABLE), OpenLine(<<"b">>), IsLine(2)>> \o records
            \o <<CloseLine, CloseLine>>
        prices(n) ==
            <<TableLine(PRICE_TABLE), OpenLine(<<"r">>), ValueLine(<<"b">>, n),
              CloseLine, CloseLine>>
    IN  { <<>>,
          prices(2),
          <<ScanLine(150)>> \o prices(2),
          <<ScanLine(150)>> \o prices(3) \o history(<<RecordLine(3, 2, 1)>>),
          <<ScanLine(150)>> \o history(<<RecordLine(1, 3, 2), RecordLine(3, 2, 1)>>),
          history(<<RecordLine(3, 3, 1)>>) }

ImportInit == ModuleLoad({<<NotLoaded, NotLoaded>>}) /\ horizon = MaxImportOps

\* The ParsedImport as a ledger
ParsedLedger ==
    [itemPrices |-> HistoryOf(parsed.itemPrices),
     importedAt |-> parsed.importedAt,
     source     |-> parsed.source]

\* handleFileSelection after parse resolved: load, mergeWithExisting, save.
\* The same handler imports into the shared copy where that is maintained.
ImportDone(store, otherStore) ==
    /\ Tick
    /\ ppc = "done"
    /\ store' = Saved({mergeWithExisting(store, ParsedLedger)})
    /\ ppc' = "idle"
    /\ content' = <<>>
    /\ parsed' = NoImport
    /\ UNCHANGED <<otherStore, first, second, merged, lpc, sourceLabel, failedAt>>
    /\ UNCHANGED <<cacheVars, queueVars, cacheLoad, stored, calls, listeners, notified, lastCall>>
    /\ UNCHANGED <<mergeVars, normVars>>

ImportLocal  == ImportDone(localStore, sharedStore)
ImportShared == ImportDone(sharedStore, localStore)

\* handleFileSelection when parse rejected: the error is shown and the
\* stored ledger stays as it is.
ImportFailed ==
    /\ Tick
    /\ ppc = "failed"
    /\ ppc' = "idle"
    /\ content' = <<>>
    /\ failedAt' = ""
    /\ UNCHANGED <<ledgerVars, sourceLabel, parsed>>
    /\ UNCHANGED <<cacheVars, queueVars, cacheLoad, stored, calls, listeners, notified, lastCall>>
    /\ UNCHANGED <<mergeVars, normVars>>

\* loadData: with a shared ledger there, mergePreferRecent(currentLocal,
\* shared) is saved as the local ledger.
Unify ==
    /\ Tick
    /\ ppc = "idle"
    /\ sharedStore # {}
    /\ first' = localStore
    /\ second' = sharedStore
    /\ merged' = mergePreferRecent(localStore, sharedStore)
    /\ localStore' = Saved(merged')
    /\ lpc' = "merged"
    /\ UNCHANGED <<sharedStore, parseVars>>
    /\ UNCHANGED <<cacheVars, queueVars, cacheLoad, stored, calls, listeners, notified, lastCall>>
    /\ UNCHANGED <<mergeVars, normVars>>

ImportNext ==
    \/ \E doc \in ImportDocuments, label \in SourceLabels : ParseCall(doc, label)
    \/ \E now \in Nows : IndexCached(now)
    \/ \E file \in IndexFiles, now \in Nows : IndexLoaded(file, now)
    \/ ImportLocal
    \/ ImportShared
    \/ ImportFailed
    \/ Unify

SpecImport == ImportInit /\ [][ImportNext]_vars

-----------------------------------------------------------------------------
(* Claims about the stored ledgers (checked under SpecImport)              *)

\* C19: in every ledger reachable from an empty store by imports (parse of
\* a document, then mergeWithExisting with the stored ledger) and by
\* mergePreferRecent of two such ledgers, no two history entries of an item
\* share both their price and their timestamp.
C19_NoDuplicateEntries ==
    \A l \in localStore \cup sharedStore \cup merged :
        \A id \in DOMAIN l.itemPrices : NoDuplicates(l.itemPrices[id])

\* Two ledgers that both hold one observation of an item were unified, and
\* the item's history holds it once next to another entry.
C19_Witness ==
    /\ lpc = "merged"
    /\ \E a \in first, b \in second, m \in localStore :
           \E id \in (DOMAIN a.itemPrices) \cap (DOMAIN b.itemPrices) :
               /\ \E i \in DOMAIN a.itemPrices[id], j \in DOMAIN b.itemPrices[id] :
                      /\ a.itemPrices[id][i].price = b.itemPrices[id][j].price
                      /\ a.itemPrices[id][i].importedAt = b.itemPrices[id][j].importedAt
               /\ a.itemPrices[id] # b.itemPrices[id]
               /\ Len(m.itemPrices[id]) >= 2

\* C25: a parse call does not modify the shared reference name index (the
\* map loadItemNameIndex returns): when parse resumes with the cached index,
\* the contents of the index after the call equal its contents before.
C25_ParseKeepsNameIndex ==
    [][(cachedIndex.loaded /\ ppc = "awaitIndex" /\ ppc' # ppc)
           => cachedIndex'.map = cachedIndex.map]_vars

-----------------------------------------------------------------------------
(* Claims about mergePreferRecent (checked under SpecPrefer)               *)

\* C14: for non-null ledgers a and b, mergePreferRecent(a, b) is the
\* mergeHistories union of both histories under the metadata (importedAt,
\* source) of the ledger with the later importedAt; when the importedAt of
\* either or both ledgers is unparseable, the metadata is that of a.
C14_MetadataOfLaterLedger ==
    (lpc = "merged" /\ first # {} /\ second # {}) =>
        \A a \in first, b \in second, m \in merged :
            /\ m.itemPrices \in
                   { mergeHistories(a.itemPrices, b.itemPrices, HISTORY_LIMIT),
                     mergeHistories(b.itemPrices, a.itemPrices, HISTORY_LIMIT) }
            /\ LET ta == LedgerTime(a.importedAt)
                   tb == LedgerTime(b.importedAt)
                   metadata(l) == m.importedAt = l.importedAt /\ m.source = l.source
               IN  /\ merged # {}
                   /\ (ta = {} \/ tb = {}) => metadata(a)
                   /\ \A t1 \in ta, t2 \in tb :
                          /\ t1 > t2 => metadata(a)
                          /\ t2 > t1 => metadata(b)

-----------------------------------------------------------------------------
(* Claims about parse (checked under SpecParse)                            *)

\* C9: parse fails if and only if neither the price table nor the
\* pricing-history table can be extracted from the document; with a table
\* present it completes with a ParsedImport whatever the collaborators
\* answer, and failure is reached only from the extraction step.
C9_FailsOnlyWithoutTables ==
    LET noTable == /\ extractTableBlock(content, PRICE_TABLE) = {}
                   /\ extractTableBlock(content, HISTORY_TABLE) = {}
    IN  /\ ppc = "failed" => noTable /\ failedAt = "extract"
        /\ (ppc \in {"awaitIndex", "done"}) => ~noTable

\* The brace depth of a block before its line i and after it, counted
\* apart from the parsers' own loops.
DepthAfter(block, i) ==
    Cardinality({j \in 1..i : openCount(block[j]) = 1})
    - Cardinality({j \in 1..i : closeCount(block[j]) = 1})

DepthBefore(block, i) == DepthAfter(block, i - 1)

\* Line i of a price table is an item line under a realm: a keyed line that
\* opens no table, inside a table opened by a keyed line at depth one.
UnderRealm(block, i) ==
    /\ block[i].k \in {"value", "is", "record"}
    /\ \E j \in 1..(i - 1) :
           /\ block[j].k = "open"
           /\ DepthBefore(block, j) = 1
           /\ \A m \in j..(i - 1) : DepthAfter(block, m) >= 2

\* The positive numeric values a price table gives a decoded name on item
\* lines under a realm. The value of an "is" or "record" line is a quoted
\* string ("id:0:0:0:0", "total:quantity"), not a number.
PositiveValues(block, name) ==
    {block[i].n : i \in {j \in DOMAIN block :
                            /\ UnderRealm(block, j)
                            /\ block[j].k = "value"
                            /\ decodeHtmlEntities(block[j].key) = name
                            /\ block[j].n > 0}}

\* The price table parse handed to parseNamedPriceDatabase, as a set
ParsedPriceBlock ==
    IF ppc = "idle" THEN {} ELSE extractTableBlock(content, PRICE_TABLE)

\* The occurrences of the start token of a table in a document, and the
\* lines at which the braces opened from the first occurrence on are all
\* closed again.
StartTokens(doc, tableName) ==
    {i \in DOMAIN doc : doc[i].k = "table" /\ doc[i].table = tableName}

ClosingLines(doc, start) ==
    {j \in start..Len(doc) : DepthAfter(doc, j) = DepthBefore(doc, start)}

\* C12: extractTableBlock returns not-found when the start token does not
\* occur or the brace depth after its first occurrence never returns to
\* zero, and otherwise exactly the text from the first occurrence through
\* the brace at which the depth first returns to zero; parse fails at its
\* extraction step exactly when both tables are not found.
C12_ExtractsBalancedSpan ==
    ppc # "idle" =>
        /\ \A tableName \in {PRICE_TABLE, HISTORY_TABLE} :
               LET starts == StartTokens(content, tableName)
                   start  == CHOOSE i \in starts : \A j \in starts : i <= j
                   ends   == ClosingLines(content, start)
                   last   == CHOOSE j \in ends : \A m \in ends : j <= m
               IN  extractTableBlock(content, tableName) =
                       IF starts = {} THEN {}
                       ELSE IF ends = {} THEN {}
                       ELSE {SubSeq(content, start, last)}
        /\ (failedAt = "extract") <=>
               \A tableName \in {PRICE_TABLE, HISTORY_TABLE} :
                   \/ StartTokens(content, tableName) = {}
                   \/ \A i \in StartTokens(content, tableName) :
                          (\A j \in StartTokens(content, tableName) : i <= j)
                              => ClosingLines(content, i) = {}

\* A parsed document whose price table is cut off before its closing brace
\* (not found) and whose pricing-history table, nested two deep, is whole.
C12_Witness ==
    /\ ppc = "done"
    /\ StartTokens(content, PRICE_TABLE) # {}
    /\ extractTableBlock(content, PRICE_TABLE) = {}
    /\ \E block \in extractTableBlock(content, HISTORY_TABLE) :
           /\ Len(block) >= 4
           /\ block[Len(block)].k = "close"

\* C11: parseNamedPriceDatabase maps each decoded display name that has a
\* positive integer value on an item line under a realm to the minimum of
\* its positive values over all realms and duplicate records, and a name
\* whose values are all zero, negative or non-numeric is not in the result.
C11_MinimumOfPositiveValues ==
    \A block \in ParsedPriceBlock :
        LET prices == parseNamedPriceDatabase(block)
            names  == {decodeHtmlEntities(block[i].key) : i \in DOMAIN block}
                      \cup {prices[i].key : i \in DOMAIN prices}
        IN  \A name \in names :
                LET values == PositiveValues(block, name)
                IN  IF values = {} THEN OGet(prices, name) = {}
                    ELSE OGet(prices, name) = {CHOOSE v \in values : \A u \in values : v <= u}


\* The history a ParsedImport holds for an item id, as a list
ParsedHistory(id) ==
    IF OGet(parsed.itemPrices, id) = {} THEN <<>>
    ELSE CHOOSE h \in OGet(parsed.itemPrices, id) : TRUE

\* C13: a raw history record with time key k of a document whose largest
\* key is M and whose anchor time is A seconds (any non-negative A, small
\* ones included) is given the timestamp A - (M - k) * 60 seconds.
C13_ReconstructedTimestamp ==
    ppc = "done" =>
        \A block \in extractTableBlock(content, HISTORY_TABLE) :
            LET records == {i \in DOMAIN block : block[i].k = "record"}
                ids     == {block[i].n : i \in {j \in DOMAIN block : block[j].k = "is"}}
                M       == CHOOSE m \in {block[i].n : i \in records} :
                               \A i \in records : block[i].n <= m
                A       == parsed.importedAt
            IN  \A id \in ids, i \in records :
                    LET price == RoundedQuotient(block[i].total, block[i].q)
                        entries == ParsedHistory(Num(id))
                    IN  price > 0 =>
                            \E n \in DOMAIN entries :
                                /\ entries[n].price = price
                                /\ entries[n].importedAt = A - (M - block[i].n) * 60

\* The prices parse goes on with, read from the document and the name
\* index as parse left it: those of the named-price path when it resolved
\* any, else those the legacy scanner committed when there is a price table.
PricesUsed(index) ==
    LET t      == ParseTables(content)
        named  == mapNamePricesToItemIds(t.namePrices, index, t.historyData.index).prices
    IN  IF named = <<>> /\ t.priceBlock # {}
        THEN parseLegacyPriceDatabase(CHOOSE b \in t.priceBlock : TRUE)
        ELSE named

\* C18: the legacy parser's output is used if and only if the price table
\* is present and the named-price path resolved zero prices; then, for a
\* document without a pricing-history table, ParsedImport.itemPrices holds
\* exactly the ids the legacy scanner committed, each with exactly one
\* observation, of the committed price.
C18_LegacyFallback ==
    [][(ppc = "awaitIndex" /\ ppc' = "done") =>
           LET used == PricesUsed(cachedIndex'.map)
           IN  /\ \A i \in DOMAIN used :
                      \E h \in OGet(parsed'.itemPrices, used[i].key) :
                          \E n \in DOMAIN h :
                              h[n] = createHistoryEntry(used[i].val, parsed'.importedAt,
                                                        sourceLabel)
               /\ extractTableBlock(content, HISTORY_TABLE) = {} =>
                      HistoryOf(parsed'.itemPrices) =
                          [id \in {used[i].key : i \in DOMAIN used} |->
                              <<createHistoryEntry(CHOOSE p \in OGet(used, id) : TRUE,
                                                   parsed'.importedAt, sourceLabel)>>]]_vars

\* A parsed document in the legacy layout, without a pricing-history
\* table: the item block's id holds one observation of its price.
C18_Witness ==
    /\ ppc = "done"
    /\ extractTableBlock(content, HISTORY_TABLE) = {}
    /\ \E block \in extractTableBlock(content, PRICE_TABLE) :
           /\ parseLegacyPriceDatabase(block) = <<[key |-> Num(2), val |-> 3]>>
           /\ \A i \in DOMAIN block : block[i].k = "value" => block[i].key = <<"m", "r">>
    /\ \E n \in DOMAIN parsed.itemPrices :
           /\ Len(parsed.itemPrices) = 1
           /\ parsed.itemPrices[n].key = Num(2)
           /\ Len(parsed.itemPrices[n].val) = 1
           /\ parsed.itemPrices[n].val[1].price = 3

-----------------------------------------------------------------------------
(* Claims about the reconciler (checked under SpecMerge)                   *)

\* The (price, timestamp) identity mergeHistories deduplicates on.
Key(e) == <<e.price, e.importedAt>>
Keys(s) == {Key(s[i]) : i \in DOMAIN s}

ListOf(m, i) == IF i \in DOMAIN m THEN m[i] ELSE <<>>

\* C1: merging an import P into the empty ledger and then merging P again
\* yields exactly the ledger of the first merge, entry for entry and in the
\* same order, for every P and every retention limit.
C1_IdempotentMerge ==
    (existing = EmptyMap /\ mpc = "twice") => result = once

\* C2: after mergeHistories(existing, incoming, limit) every item of the
\* result holds at most `limit` entries, and they are the `limit` most recent
\* by timestamp among the item's existing and incoming entries.
C2_RetentionBound ==
    mpc = "once" =>
        \A i \in DOMAIN result :
            LET pool == Keys(ListOf(existing, i)) \cup Keys(ListOf(incoming, i))
                kept == Keys(result[i])
            IN  /\ Len(result[i]) <= limit
                /\ Len(result[i]) = Min(limit, Cardinality(pool))
                /\ kept \subseteq pool
                /\ \A k \in pool \ kept : \A e \in kept :
                       getTime(k[2]) <= getTime(e[2])

C17_CarriesThroughUntouched ==
    [][/\ MergeOnce =>
              /\ \A id \in (DOMAIN existing) \ (DOMAIN incoming) :
                     id \in DOMAIN result' /\ result'[id] = existing[id]
              /\ DOMAIN result' \subseteq (DOMAIN existing) \cup (DOMAIN incoming)
              /\ existing' = existing
              /\ incoming' = incoming
       /\ MergeAgain =>
              /\ \A id \in (DOMAIN result) \ (DOMAIN incoming) :
                     id \in DOMAIN result' /\ result'[id] = result[id]
              /\ DOMAIN result' \subseteq (DOMAIN result) \cup (DOMAIN incoming)
              /\ incoming' = incoming]_vars

\* A merge that carried one item through while it added an entry to the
\* history of another: the list it was handed for that item is as it was.
C17_Witness ==
    /\ mpc = "once"
    /\ \E id \in (DOMAIN existing) \ (DOMAIN incoming) :
           Len(existing[id]) >= 1 /\ result[id] = existing[id]
    /\ \E id \in (DOMAIN existing) \cap (DOMAIN incoming) :
           /\ Len(existing[id]) >= 1
           /\ Len(result[id]) > Len(existing[id])

-----------------------------------------------------------------------------
(* Claims about the ItemNameResolver cache (checked under Spec)            *)

\* The latest step was a setManualMapping call that returned success.
ManualSucceeded(call) == call.op = "setManualMapping" /\ call.success

\* The number is a positive integer (in halves: positive and even).
IsPositiveInteger(n) == n.fin /\ n.h > 0 /\ IsInteger(n.h)

\* C4: immediately after a successful setManualMapping(id, name),
\* idToName[id] is the trimmed name, nameToId[normalize(name)] is id, and no
\* other id has an idToName entry whose normalized form is normalize(name).
C4_IdentityBijection ==
    ManualSucceeded(lastCall) =>
        LET id         == lastCall.itemId.h
            normalized == normalizeItemName(lastCall.displayName)
        IN  /\ Opt(idToName, id) = {Trim(lastCall.displayName)}
            /\ Opt(nameToId, normalized) = {id}
            /\ \A j \in (DOMAIN idToName) \ {id} : normalizeItemName(idToName[j]) # normalized

\* C5: in every reachable state the two maps are consistent: idToName[id] = n
\* implies nameToId[normalize(n)] = id, and nameToId[k] = id implies
\* normalize(idToName[id]) = k.
C5_MapsConsistent ==
    /\ \A id \in DOMAIN idToName : Opt(nameToId, normalizeItemName(idToName[id])) = {id}
    /\ \A k \in DOMAIN nameToId :
          /\ nameToId[k] \in DOMAIN idToName
          /\ normalizeItemName(idToName[nameToId[k]]) = k

\* C6: a successful setManualMapping(id, name) reports the state before the
\* call: previousName is the name idToName[id] held before (null if none),
\* previousOwnerId is the id nameToId[normalize(name)] held before when it
\* differs from id (null otherwise), and a non-null previousOwnerId has no
\* idToName entry after the call.
C6_ReportsPriorState ==
    [][ ManualSucceeded(lastCall') =>
            LET id         == lastCall'.itemId.h
                normalized == normalizeItemName(lastCall'.displayName)
            IN  /\ lastCall'.previousName = Opt(idToName, id)
                /\ lastCall'.previousOwnerId = {o \in Opt(nameToId, normalized) : o # id}
                /\ \A o \in lastCall'.previousOwnerId : o \notin DOMAIN idToName' ]_vars

\* A successful override met both conflicts: the id had another name and the
\* name had another owner, whose name is reported and whose entry is gone.
C6_Witness ==
    /\ ManualSucceeded(lastCall)
    /\ lastCall.previousName # {}
    /\ lastCall.previousName # {Trim(lastCall.displayName)}
    /\ lastCall.previousOwnerId # {}
    /\ lastCall.previousOwnerName # {}
    /\ \A o \in lastCall.previousOwnerId : o \notin DOMAIN idToName

\* C7: setManualMapping(id, name) returns success = false whenever id is not
\* a positive integer (zero, negative, non-finite or fractional) or name is
\* empty after trimming, and then nameToId and idToName are unchanged, no
\* persistence is scheduled and no listener is notified.
C7_RejectsBadArguments ==
    [][ ( /\ lastCall'.op = "setManualMapping"
          /\ \/ ~IsPositiveInteger(lastCall'.itemId)
             \/ Trim(lastCall'.displayName) = <<>> )
        => /\ ~lastCall'.success
           /\ UNCHANGED <<nameToId, idToName, persistScheduled>>
           /\ notified' = <<>> ]_vars

\* The two maps just before entry i of a mapping handed to prime is
\* applied: every earlier entry with a name that normalizes to something
\* has been written to both.
RECURSIVE MapsBefore(_, _)
MapsBefore(mapping, i) ==
    IF i = 1 THEN [nameToId |-> nameToId, idToName |-> idToName]
    ELSE LET before     == MapsBefore(mapping, i - 1)
             entry      == mapping[i - 1]
             normalized == normalizeItemName(entry.name)
         IN  IF normalized = <<>> THEN before
             ELSE [nameToId |-> Put(before.nameToId, normalized, entry.id),
                   idToName |-> Put(before.idToName, entry.id, entry.name)]

\* The entries of a mapping that differ from the cache just before they
\* are applied, and those among them that change it.
Differing(mapping) ==
    {i \in DOMAIN mapping :
        \/ Opt(MapsBefore(mapping, i).nameToId, normalizeItemName(mapping[i].name))
               # {mapping[i].id}
        \/ Opt(MapsBefore(mapping, i).idToName, mapping[i].id) # {mapping[i].name}}

Changing(mapping) ==
    {i \in Differing(mapping) : normalizeItemName(mapping[i].name) # <<>>}

\* C16: prime(mapping) notifies listeners for an entry only if the entry
\* differs from the cache just before it is applied; it schedules
\* persistence if and only if some entry changed the cache; and when every
\* entry is in the cache already, nobody is notified and no persistence is
\* scheduled.
C16_PrimeNotifiesOnlyChanges ==
    [][\A mapping \in {m \in PrimeMappings : lastCall'.op = "prime"} :
           Prime(mapping) =>
               /\ \A n \in DOMAIN notified' :
                      \E i \in Differing(mapping) :
                          /\ notified'[n].id = mapping[i].id
                          /\ notified'[n].name = mapping[i].name
               /\ persistScheduled' = (persistScheduled \/ Changing(mapping) # {})
               /\ (\A i \in DOMAIN mapping :
                       /\ Opt(nameToId, normalizeItemName(mapping[i].name)) = {mapping[i].id}
                       /\ Opt(idToName, mapping[i].id) = {mapping[i].name})
                  => notified' = <<>> /\ persistScheduled' = persistScheduled]_vars

\* prime ran on a cache that held its whole mapping, with a listener
\* registered: nobody was notified and no persist is armed.
C16_Witness ==
    /\ lastCall.op = "prime"
    /\ listeners # <<>>
    /\ idToName # EmptyMap
    /\ notified = <<>>
    /\ ~persistScheduled

\* C20: whenever nameToId[k] changes from an id to a different id, the
\* step is a setManualMapping call and the idToName entry of the former id
\* is removed in that step; no prime, resolve or resolveId completion
\* changes an existing nameToId entry to a different id.
C20_ReassignedOnlyByOverride ==
    [][\A k \in (DOMAIN nameToId) \cap (DOMAIN nameToId') :
           nameToId[k] # nameToId'[k] =>
               /\ lastCall'.op = "setManualMapping"
               /\ lastCall'.success
               /\ nameToId[k] \notin DOMAIN idToName']_vars

\* The ids whose idToName entry a step sets to a name different from the
\* one held before it.
Renamed == {id \in DOMAIN idToName' : Opt(idToName, id) # {idToName'[id]}}

\* C15: whenever a resolver operation (prime, resolve, resolveId,
\* setManualMapping, hydration of the cache from storage) sets idToName[id]
\* to a name different from the one it held, every listener registered at
\* that moment is called with {id, name} before the operation returns.
C15_ChangeNotifiesListeners ==
    [][\A id \in Renamed : \A i \in DOMAIN listeners :
           \E n \in DOMAIN notified' :
               notified'[n] = [listener |-> listeners[i], id |-> id, name |-> idToName'[id]]]_vars

\* A step of prime, resolve, resolveId or setManualMapping that changed the
\* cache: the maps differ, and the step is neither the completion of the
\* hydration read nor a clearCache (which alone empties the cache).
StoredChange ==
    /\ <<nameToId, idToName>>' # <<nameToId, idToName>>
    /\ cacheLoad' = cacheLoad
    /\ idToName' # EmptyMap

\* The persist callback ran in the latest step.
Written == lastCall.op = "persist"

\* C26 as stated: with armed callbacks eventually running, every entry of a
\* cache that awaits its persist is eventually in the payload of a write.
C26_EveryChangeWritten ==
    \A id \in Ids : \A n \in RawNames :
        (persistScheduled /\ Opt(idToName, id) = {n})
            ~> (Written /\ (\E pl \in lastCall.payload : Opt(pl.idToName, id) = {n}))

\* C26, amended: a change of the cache by prime, resolve, resolveId or
\* setManualMapping leaves a persist callback armed; with armed callbacks
\* eventually running, every entry of a cache that awaits its persist is
\* eventually in the payload of a write, unless it is replaced or removed
\* first; at most one persist callback is armed at any time; and the
\* payload of a write is the cache content at the moment the callback runs.
C26_ChangePersists ==
    /\ [][StoredChange => (persistScheduled' /\ persistCallbacks' > 0)]_vars
    /\ \A id \in Ids : \A n \in RawNames :
           (persistScheduled /\ Opt(idToName, id) = {n})
               ~> \/ Written /\ (\E pl \in lastCall.payload : Opt(pl.idToName, id) = {n})
                  \/ Opt(idToName, id) # {n}
    /\ [](persistCallbacks <= 1)
    /\ [](Written =>
              lastCall.payload = {[nameToId |-> nameToId, idToName |-> idToName]})

\* A write was issued for a cache that holds a mapping, and no callback is
\* armed after it.
C26_Witness ==
    /\ Written
    /\ \E pl \in lastCall.payload : pl.idToName # EmptyMap /\ pl.nameToId # EmptyMap
    /\ ~persistScheduled
    /\ persistCallbacks = 0

\* C28: after a successful setManualMapping(id, name), idToName[id] stays
\* the assigned name until the next setManualMapping or clearCache: no
\* completion of a lookup started before the override and no prime or
\* resolve replaces it. Stated for the step that follows the override.
C28_ManualNameStays ==
    [][( /\ ManualSucceeded(lastCall)
         /\ lastCall'.op # "setManualMapping"
         /\ ~(nameToId' = EmptyMap /\ idToName' = EmptyMap) )
       => Opt(idToName', lastCall.itemId.h) = {Trim(lastCall.displayName)}]_vars

\* A step in which prime, setManualMapping, resolve or resolveId (called
\* directly or by the queue) may store a mapping.
Storing ==
    \/ lastCall'.op \in {"prime", "setManualMapping"}
    \/ \E id \in Ids : inFlight'[id] < inFlight[id]
    \/ calls' # calls /\ calls' \subseteq calls

\* C29: after clearCache() both maps are empty and stay empty until prime,
\* resolve, resolveId or setManualMapping stores a mapping, also when the
\* hydration read is still in flight at the call and completes afterwards.
\* Stated for the step that follows clearCache.
C29_ClearedStaysEmpty ==
    [][(lastCall.op = "clearCache" /\ ~Storing)
           => (nameToId' = EmptyMap /\ idToName' = EmptyMap)]_vars

\* C30: prime is idempotent: for every mapping m (also one that gives an
\* id several display names), prime(m) called a second time immediately
\* after prime(m) leaves nameToId and idToName unchanged, notifies no
\* listener and schedules no additional persistence.
C30_PrimeIdempotent ==
    [][\A m \in {x \in PrimeMappings : lastCall.op = "prime" /\ lastCall.mapping = x} :
           Prime(m) =>
               /\ UNCHANGED <<nameToId, idToName>>
               /\ notified' = <<>>
               /\ UNCHANGED <<persistScheduled, persistCallbacks>>]_vars

\* The ids a step adds to the pending set.
Queued == Range(pendingIds') \ Range(pendingIds)

\* C21: no operation of the resolver (queueIdResolution, resolve,
\* resolveMany) adds to the pending set an id for which idToName has an
\* entry at the moment it is added.
C21_NeverQueuesCachedId ==
    [][\A id \in Queued : id \notin DOMAIN idToName']_vars

-----------------------------------------------------------------------------
(* Claims about the lookup queue (checked under SpecQueue)                 *)

\* C8: in every reachable state the number of lookups the queue worker
\* started and that have not completed is at most MAX_CONCURRENT_XML_REQUESTS.
C8_InFlightCap ==
    InFlightCount <= MAX_CONCURRENT_XML_REQUESTS

\* C22: under any interleaving of queueIdResolution calls, queue runs and
\* lookup completions, no id has two queue-started lookups in flight at the
\* same time, and an id whose lookup is in flight is not in the pending set.
C22_NoDuplicateInFlight ==
    \A id \in Ids :
        /\ inFlight[id] <= 1
        /\ (inFlight[id] > 0 => id \notin Range(pendingIds))

\* A lookup the queue started settles in this step.
Settles == \E id \in Ids : inFlight'[id] < inFlight[id]

C24_FailedLookupDropsId ==
    [][\A id \in Ids :
           LookupDone(id, NoName) =>
               /\ id \notin Range(pendingIds')
               /\ id \notin DOMAIN idToName'
               /\ UNCHANGED <<nameToId, idToName>>
               /\ notified' = <<>>]_vars

-----------------------------------------------------------------------------
(* Claims about the histories parse returns (checked under SpecParse)      *)

\* The observations (price, time) a document holds for a parsed item id,
\* read from its lines: a record of the item's history with a positive
\* rounded per-unit price, at the time its key gives it against the largest
\* key and the anchor time (not before the epoch), and the price parse goes
\* on with for the item, at the anchor time.
Observed(id, index, anchor) ==
    LET fromBlock(block) ==
            LET records == {i \in DOMAIN block : block[i].k = "record" /\ block[i].total > 0}
                ids     == {block[i].n : i \in {j \in DOMAIN block : block[j].k = "is"}}
                M       == CHOOSE m \in {block[i].n : i \in records} :
                               \A i \in records : block[i].n <= m
            IN  IF Num(id) \notin {Num(x) : x \in ids} THEN {}
                ELSE {<<RoundedQuotient(block[i].total, block[i].q),
                        Max(anchor - (M - block[i].n) * 60, 0)>> :
                         i \in {r \in records : RoundedQuotient(block[r].total, block[r].q) > 0}}
    IN  UNION {fromBlock(b) : b \in extractTableBlock(content, HISTORY_TABLE)}
        \cup {<<price, anchor>> : price \in OGet(PricesUsed(index), Num(id))}

\* C27: every per-item history of a ParsedImport returned by parse is a
\* well-formed ItemPriceHistory: entries in non-decreasing timestamp order,
\* at most HISTORY_LIMIT entries with the oldest dropped first, no two
\* entries with the same price and timestamp, every price a positive
\* integer; records whose rounded per-unit price is not positive are
\* dropped.
C27_WellFormedHistories ==
    [][(ppc = "awaitIndex" /\ ppc' = "done") =>
           \A id \in ItemIds :
               LET h    == ParsedHistory(Num(id))'
                   seen == Observed(id, cachedIndex'.map, parsed'.importedAt)
               IN  /\ IsSorted(h)
                   /\ NoDuplicates(h)
                   /\ Len(h) = Min(Cardinality(seen), HISTORY_LIMIT)
                   /\ \A n \in DOMAIN h : h[n].price \in Nat \ {0}
                   /\ Keys(h) \subseteq seen
                   /\ \A c \in seen \ Keys(h) :
                          \A n \in DOMAIN h : c[2] <= h[n].importedAt]_vars

\* parse returned a history cut to HISTORY_LIMIT entries: the document held
\* more valid records than that, and the oldest entry is no longer there.
C27_Witness ==
    /\ ppc = "done"
    /\ content \in LongDocuments
    /\ Len(ParsedHistory(Num(2))) = HISTORY_LIMIT
    /\ \A n \in DOMAIN ParsedHistory(Num(2)) : ParsedHistory(Num(2))[n].price # 1

====
